---- MODULE Spec2Model ----
(***************************************************************************)
(* A model of the hierarchical-diagonalization engine of scqubits'         *)
(* core/circuit.py: the tree of Subsystem nodes under a root Circuit, the  *)
(* partition of the canonical Hamiltonian over the node tree, the property *)
(* setters and their propagation, and the composite (HilbertSpace)         *)
(* assembly.                                                               *)
(*                                                                         *)
(* Symbolic expressions are modelled by what the code reads of them: a     *)
(* monomial is the key of sympy's as_coefficients_dict (a product of       *)
(* symbols), known by its name and its free symbols; a Hamiltonian is a    *)
(* finite map from monomials to non-zero integer coefficients.             *)
(***************************************************************************)
EXTENDS Integers, Sequences, FiniteSets, TLC

VARIABLES root,      \* the root Circuit object (a node record, children nested)
          last,      \* the operation that ran last, with its outcome
          nops,      \* number of operations run so far (bounded by MaxOps)
          call,      \* the last call of a function that changes no state:
                     \* its name, arguments and result
          lookup     \* the SpectrumLookup object (spec_lookup.py)

vars == <<root, last, nops, call, lookup>>

(***************************************************************************)
(* Bounds of the model                                                     *)
(***************************************************************************)
MaxOps == 2          \* operations applied after construction
MaxParam == 1        \* number of branch-parameter values a client sets
MaxFlux == 1         \* external-flux and offset-charge values are 1..MaxFlux
MaxCutoff == 1       \* cutoffs set by a client are 1..MaxCutoff

(***************************************************************************)
(* Program constants                                                       *)
(***************************************************************************)
DefaultCutoffN == 5      \* initiate_circuit: default cutoff of a periodic variable
DefaultCutoffExt == 30   \* initiate_circuit: default cutoff of an extended variable

(***************************************************************************)
(* Generic helpers                                                         *)
(***************************************************************************)
Range(s) == {s[k] : k \in DOMAIN s}

RECURSIVE SeqProd(_)
SeqProd(s) == IF s = <<>> THEN 1 ELSE Head(s) * SeqProd(Tail(s))

RECURSIVE SortedSeqOf(_)
\* list.sort() of a set of integers: ascending
SortedSeqOf(S) ==
    IF S = {} THEN <<>>
    ELSE LET m == CHOOSE x \in S : \A y \in S : x <= y
         IN <<m>> \o SortedSeqOf(S \ {m})

None == [some |-> FALSE, v |-> <<>>]
Some(x) == [some |-> TRUE, v |-> x]

(***************************************************************************)
(* Symbols.  A symbol is known by its name, str(symbol); SymInfo gives its *)
(* kind and get_trailing_number(name), 0 standing for Python's None        *)
(* (variable indices start at 1).                                          *)
(***************************************************************************)
Digit(i) ==
    IF i = 1 THEN "1" ELSE IF i = 2 THEN "2" ELSE IF i = 3 THEN "3"
    ELSE IF i = 10 THEN "10" ELSE "4"

SymN(i)   == "n" \o Digit(i)
SymCos(i) == "thc" \o Digit(i)
SymSin(i) == "ths" \o Digit(i)
SymPos(i) == "th" \o Digit(i)
SymQ(i)   == "Q" \o Digit(i)
SymQs(i)  == "Qs" \o Digit(i)
SymI      == "I"
SymFlux(i) == "Phi" \o Digit(i)
SymNg(i)  == "ng_" \o Digit(i)
SymEJ     == "EJ"
SymEJ1    == "EJ1"     \* a branch parameter the user named EJ1
SymEJ4    == "EJ4"     \* a branch parameter named after the fourth branch

VarIndices == {1, 2, 3}

\* the variable indices of the leaf nodes whose operators are followed
\* call by call: one-digit and two-digit
OperatorVarIndices == {1, 2, 10}

SymInfo ==
    LET E(name, kind, idx) == [name |-> name, kind |-> kind, idx |-> idx]
        all == UNION {{E(SymN(i), "number", i), E(SymCos(i), "cos", i),
                       E(SymSin(i), "sin", i), E(SymPos(i), "position", i),
                       E(SymQ(i), "momentum", i), E(SymQs(i), "momentum_squared", i),
                       E(SymFlux(i), "flux", i), E(SymNg(i), "ng", i)}
                        : i \in VarIndices}
               \cup {E(SymI, "identity", 0), E(SymEJ, "param", 0),
                     E(SymEJ1, "param", 1), E(SymEJ4, "param", 4),
                     E("", "none", 0)}
               \cup {E(t \o "_" \o Digit(i), "cutoff", i)
                        : t \in {"cutoff_n", "cutoff_ext"}, i \in VarIndices}
               \cup {E("ext_basis", "attribute", 0)}
    IN [nm \in {e.name : e \in all} |-> CHOOSE e \in all : e.name = nm]

KindOf(s) == SymInfo[s].kind

get_trailing_number(s) == SymInfo[s].idx

(***************************************************************************)
(* Monomials and Hamiltonians                                              *)
(***************************************************************************)
\* term.free_symbols of the monomials of the circuits
MonoSyms(term) ==
    CASE term = "n1**2" -> {SymN(1)}
      [] term = "n2**2" -> {SymN(2)}
      [] term = "Qs3" -> {SymQs(3)}
      [] term = "EJ*thc1" -> {SymEJ, SymCos(1)}
      [] term = "I*n1*ng_1" -> {SymI, SymN(1), SymNg(1)}
      [] term = "I**2*ng_1**2" -> {SymI, SymNg(1)}
      [] term = "EJ1*thc2" -> {SymEJ1, SymCos(2)}
      [] term = "EJ4*thc1" -> {SymEJ4, SymCos(1)}
      [] term = "n1*n2" -> {SymN(1), SymN(2)}
      [] term = "EJ*thc2*thc3" -> {SymEJ, SymCos(2), SymCos(3)}
      [] term = "EJ*cos(I*Phi1)*thc1*thc2*thc3" ->
            {SymEJ, SymI, SymFlux(1), SymCos(1), SymCos(2), SymCos(3)}

\* expr.free_symbols
free_symbols(A) == UNION {MonoSyms(m) : m \in DOMAIN A}

\* sympy arithmetic on sums of monomials: coefficients add, zero terms vanish
Coef(A, m) == IF m \in DOMAIN A THEN A[m] ELSE 0

HZero == [m \in {} |-> 0]

HAdd(A, B) ==
    LET nz == {m \in DOMAIN A \cup DOMAIN B : Coef(A, m) + Coef(B, m) # 0}
    IN [m \in nz |-> Coef(A, m) + Coef(B, m)]

HSub(A, B) ==
    LET nz == {m \in DOMAIN A \cup DOMAIN B : Coef(A, m) - Coef(B, m) # 0}
    IN [m \in nz |-> Coef(A, m) - Coef(B, m)]

RECURSIVE HSum(_)
HSum(hs) == IF hs = <<>> THEN HZero ELSE HAdd(Head(hs), HSum(Tail(hs)))


(***************************************************************************)
(* System hierarchies: a Python list whose items are variable indices or   *)
(* lists.  An item is Idx(i) or Grp(list).                                 *)
(***************************************************************************)
Idx(i) == [leaf |-> TRUE, i |-> i, sub |-> <<>>]
Grp(l) == [leaf |-> FALSE, i |-> 0, sub |-> l]

RECURSIVE flatten_list_recursive(_)
flatten_list_recursive(l) ==
    IF l = <<>> THEN <<>>
    ELSE (IF Head(l).leaf THEN <<Head(l).i>>
          ELSE flatten_list_recursive(Head(l).sub))
         \o flatten_list_recursive(Tail(l))

\* system_hierarchy == flatten_list_recursive(system_hierarchy)
IsFlatList(l) == \A k \in DOMAIN l : l[k].leaf

\* truncated dimensions: an entry is an int d, or the list [d, sub]
TdInt(d) == [isList |-> FALSE, d |-> d, sub |-> None]
TdList(d, l) == [isList |-> TRUE, d |-> d, sub |-> Some(l)]

(***************************************************************************)
(* generate_subsystems, first half: the partition of the Hamiltonian       *)
(***************************************************************************)
\* the variable indices of a term, branch parameters, external fluxes and
\* offset charges removed
term_var_categories(term, param_vars) ==
    {get_trailing_number(var) : var \in
        {v \in MonoSyms(term) : /\ KindOf(v) # "flux"
                           /\ KindOf(v) # "ng"
                           /\ v \notin Range(param_vars)
                           /\ get_trailing_number(v) # 0}}

\* H_sys of one group: the terms whose variable set lies within the group
GroupHsys(ham, idxs, param_vars) ==
    LET own == {t \in DOMAIN ham : term_var_categories(t, param_vars) \ idxs = {}}
    IN [t \in own |-> ham[t]]

\* H_int of one group: the terms that overlap the group and leave it
GroupHint(ham, idxs, param_vars) ==
    LET mix == {t \in DOMAIN ham :
                  /\ term_var_categories(t, param_vars) \ idxs # {}
                  /\ term_var_categories(t, param_vars) \cap idxs # {}}
    IN [t \in mix |-> ham[t]]

\* a loop that removes nothing from the running Hamiltonian; the assignment
\* property of the partition tells it from the loop of the code
KeepHamiltonian(ham, Hsys, Hint) == ham

\* hamiltonian -= H_sys - H_int
RemoveAssigned(ham, Hsys, Hint) == HSub(ham, HSub(Hsys, Hint))

RECURSIVE PartitionLoop(_, _, _)
\* the loop over self.system_hierarchy: <<systems_sym, interaction_sym>>
PartitionLoop(ham, items, param_vars) ==
    IF items = <<>> THEN [sys |-> <<>>, int |-> <<>>]
    ELSE LET idxs == Range(flatten_list_recursive(Head(items).sub))
             Hsys == GroupHsys(ham, idxs, param_vars)
             Hint == GroupHint(ham, idxs, param_vars)
             rest == PartitionLoop(RemoveAssigned(ham, Hsys, Hint),
                                   Tail(items), param_vars)
         IN [sys |-> <<Hsys>> \o rest.sys, int |-> <<Hint>> \o rest.int]


(***************************************************************************)
(* Nodes.  A node record holds the attributes of one Subsystem / Circuit   *)
(* object; its children are nested in the field subsystems.                *)
(***************************************************************************)
\* the property name "cutoff_n_<i>" / "cutoff_ext_<i>"
CutName(type, i) == type \o "_" \o Digit(i)

CutInfo ==
    LET all == {[name |-> CutName(t, i), type |-> t, idx |-> i]
                  : t \in {"cutoff_n", "cutoff_ext"},
                    i \in VarIndices \cup OperatorVarIndices}
    IN [nm \in {e.name : e \in all} |-> CHOOSE e \in all : e.name = nm]

\* the names of the cutoff properties, periodic variables first
CutoffNamesOf(var_categories) ==
    [k \in 1..Len(var_categories.periodic) |->
        CutName("cutoff_n", var_categories.periodic[k])]
    \o [k \in 1..Len(var_categories.extended) |->
        CutName("cutoff_ext", var_categories.extended[k])]

InList(l, x) == \E k \in DOMAIN l : l[k] = x

\* list.index(x): the first position holding x, from 1; 0 for a ValueError
ListIndex(l, x) ==
    IF \E k \in DOMAIN l : l[k] = x
    THEN CHOOSE k \in DOMAIN l : l[k] = x /\ \A j \in 1..(k - 1) : l[j] # x
    ELSE 0

\* [x for x in l if x in S]
Keep(l, S) == SelectSeq(l, LAMBDA x : x \in S)

\* _set_vars: the operator symbols of a node
OperatorSymbols(var_categories, ext_basis) ==
    UNION {{SymSin(i), SymCos(i), SymN(i)} : i \in Range(var_categories.periodic)}
    \cup UNION {{SymPos(i), SymQ(i), SymQs(i), SymSin(i), SymCos(i)} :
                  i \in Range(var_categories.extended)}

\* str(var_index) as its characters (indices below 100)
DecimalDigits(i) == IF i < 10 THEN <<i>> ELSE <<i \div 10, i % 10>>

\* a < b on strings, character by character; a proper prefix comes first
StrLess(a, b) ==
    \/ \E k \in DOMAIN a \cap DOMAIN b :
          a[k] < b[k] /\ \A j \in 1..(k - 1) : a[j] = b[j]
    \/ Len(a) < Len(b) /\ \A j \in DOMAIN a : a[j] = b[j]

RECURSIVE SortedByName(_)
\* attr_list.sort() on the names of one cutoff type: the variable indices
\* in the order of their names, which is the order of str(var_index)
SortedByName(S) ==
    IF S = {} THEN <<>>
    ELSE LET m == CHOOSE x \in S :
                    \A y \in S \ {x} : StrLess(DecimalDigits(x), DecimalDigits(y))
         IN <<m>> \o SortedByName(S \ {m})

\* hilbertdim() of a node without hierarchical diagonalization, from
\* get_cutoffs(): the cutoff names of each type sorted, 2k+1 for cutoff_n
\* and k for cutoff_ext
get_cutoffs(node, type) ==
    LET idxs == {CutInfo[n].idx :
                   n \in {m \in Range(node.cutoff_names) : CutInfo[m].type = type}}
        sorted == SortedByName(idxs)
    IN [k \in 1..Len(sorted) |-> node.cutoffs[CutName(type, sorted[k])]]

\* a periodic variable counted as an extended one; the dimension formula
\* tells it from the code
PlainDim(k) == k

PeriodicDim(k) == 2 * k + 1
ExtendedDim(k) == k

FlatDims(node) ==
    LET cn == get_cutoffs(node, "cutoff_n")
        ce == get_cutoffs(node, "cutoff_ext")
    IN [k \in 1..Len(cn) |-> PeriodicDim(cn[k])]
       \o [k \in 1..Len(ce) |-> ExtendedDim(ce[k])]

\* self.subsystem_trunc_dims[i][0] if it is a list, else the entry itself
TopTruncDim(entry) == entry.d

HierDims(node) ==
    [k \in 1..Len(node.system_hierarchy.v) |->
        TopTruncDim(node.subsystem_trunc_dims.v[k])]

hilbertdim(node) ==
    IF ~node.hierarchical_diagonalization
    THEN SeqProd(FlatDims(node))
    ELSE SeqProd(HierDims(node))

\* circuit_operators / set_operators of a leaf: one operator per operator
\* symbol, computed from the cutoffs the node holds at that moment
LeafOperators(node) ==
    [syms |-> OperatorSymbols(node.var_categories, node.ext_basis),
     cutoffs |-> [k \in DOMAIN node.cutoff_names |-> node.cutoffs[node.cutoff_names[k]]]]

RECURSIVE set_operators(_)
set_operators(node) ==
    IF node.hierarchical_diagonalization
    THEN [node EXCEPT !.subsystems =
             [k \in DOMAIN node.subsystems |-> set_operators(node.subsystems[k])]]
    ELSE [node EXCEPT !.ops = LeafOperators(node)]

\* get_subsystem_index: the first group holding var_index; 0 for None
get_subsystem_index(node, var_index) ==
    LET hits == {k \in DOMAIN node.system_hierarchy.v :
                   InList(flatten_list_recursive(node.system_hierarchy.v[k].sub),
                          var_index)}
    IN IF hits = {} THEN 0 ELSE CHOOSE k \in hits : \A j \in hits : k <= j

NoOperators == [syms |-> {}, cutoffs |-> <<>>]

\* getattr(self, name) on a node: an operator that set_operators bound, the
\* value of a property or of a plain attribute, or an AttributeError
AttributeKind(node, name) ==
    IF name \in node.ops.syms \/ (name = SymI /\ node.ops.syms # {}) THEN "operator"
    ELSE IF name \in DOMAIN node.vals \cup DOMAIN node.cutoffs \cup {"ext_basis"}
    THEN "scalar"
    ELSE "none"

\* what get_operator hands to convert_matrix_to_qobj is a matrix: the
\* result of a nested get_operator, or an operator attribute of a leaf
ReturnsOperator(node, s) ==
    node.hierarchical_diagonalization \/ AttributeKind(node, s) = "operator"

RECURSIVE CanGetOperator(_, _)
\* whether get_operator(name) returns (no AttributeError / KeyError, and
\* no failure of the matrix conversion)
CanGetOperator(node, s) ==
    IF ~node.hierarchical_diagonalization
    THEN AttributeKind(node, s) # "none"
    ELSE LET k == get_subsystem_index(node, get_trailing_number(s))
         IN /\ node.has_subsystems
            /\ k \in DOMAIN node.subsystems
            /\ CanGetOperator(node.subsystems[k], s)
            /\ ReturnsOperator(node.subsystems[k], s)

RECURSIVE get_operator(_, _)
get_operator(node, s) ==
    IF ~node.hierarchical_diagonalization
    THEN [sym |-> s, cutoffs |-> node.ops.cutoffs]
    ELSE LET k == get_subsystem_index(node, get_trailing_number(s))
         IN get_operator(node.subsystems[k], s)

(***************************************************************************)
(* build_hilbertspace                                                      *)
(***************************************************************************)
\* the symbols of a term that are substituted by their numeric values
ValueSymbols(node, term) ==
    MonoSyms(term) \cap Range(node.param_vars \o node.external_fluxes \o node.offset_charges)

\* operator_symbols of a term (the identity marker was substituted by 1)
TermOperatorSymbols(node, term) ==
    {v \in MonoSyms(term) : /\ KindOf(v) # "flux"
                       /\ KindOf(v) # "ng"
                       /\ KindOf(v) # "identity"
                       /\ v \notin Range(node.param_vars)}

\* float(coefficient_sympy): the coefficient of the term evaluated at the
\* values the node holds for the term's parameter, flux and charge symbols
CouplingCoefficient(node, coef, term) ==
    [c |-> coef, at |-> [s \in ValueSymbols(node, term) |-> node.vals[s]]]

\* the operators of one coupling: each taken from the subsystem that
\* get_subsystem_index names for its variable
CouplingOperators(node, term) ==
    {[sub |-> get_subsystem_index(node, get_trailing_number(v)),
      op  |-> get_operator(
                node.subsystems[get_subsystem_index(node, get_trailing_number(v))], v)]
        : v \in TermOperatorSymbols(node, term)}

\* the couplings add_interaction registers, group by group
Couplings(node) ==
    UNION {{[grp |-> k, term |-> t,
             g |-> CouplingCoefficient(node, node.subsystem_interactions[k][t], t),
             ops |-> CouplingOperators(node, t)]
              : t \in DOMAIN node.subsystem_interactions[k]}
           : k \in DOMAIN node.system_hierarchy.v}

\* whether build_hilbertspace runs to its end (every operator is found)
CanBuildHilbertSpace(node) ==
    /\ node.has_subsystems
    /\ Len(node.subsystems) >= Len(node.system_hierarchy.v)
    /\ Len(node.subsystem_interactions) >= Len(node.system_hierarchy.v)
    /\ \A k \in DOMAIN node.system_hierarchy.v :
         \A t \in DOMAIN node.subsystem_interactions[k] :
           \A v \in TermOperatorSymbols(node, t) :
             LET j == get_subsystem_index(node, get_trailing_number(v))
             IN j \in DOMAIN node.subsystems /\ CanGetOperator(node.subsystems[j], v)

NoHilbertSpace == [couplings |-> {}]

build_hilbertspace(node) ==
    [node EXCEPT !.has_hs = TRUE,
                 !.hilbert_space = [couplings |-> Couplings(node)]]

(***************************************************************************)
(* Subsystem.__init__, _initiate_subsystem and generate_subsystems         *)
(***************************************************************************)
Res(ok, node, built) == [ok |-> ok, node |-> node, built |-> built]

\* the variable index __init__ reads off a free symbol: the first run of
\* digits of its name, offset-charge and flux names removed; 0 when none
FilteredVarIndex(v) ==
    IF KindOf(v) \in {"flux", "ng"} THEN 0 ELSE SymInfo[v].idx

\* var_categories_list of a child: read off the free symbols, sorted
ChildVarList(Hsym) ==
    SortedSeqOf({FilteredVarIndex(v) :
                   v \in {w \in free_symbols(Hsym) : KindOf(w) # "identity"}} \ {0})

\* system_hierarchy != [] and system_hierarchy != flatten_list_recursive(...)
IsHierarchical(hier) == hier # <<>> /\ ~IsFlatList(hier)

TypeOfMatrices(nvars, ext_basis) ==
    IF nvars = 1 /\ ext_basis = "harmonic" THEN "dense" ELSE "sparse"

\* the attributes __init__ and the property creation of _initiate_subsystem set
NewSubsystem(parent, Hsym, hier, td, truncated_dim) ==
    LET fs  == free_symbols(Hsym)
        flx == Keep(parent.external_fluxes, fs)
        ngs == Keep(parent.offset_charges, fs)
        prm == Keep(parent.param_vars, fs)
        vcl == ChildVarList(Hsym)
        vc  == [periodic |-> Keep(parent.var_categories.periodic, Range(vcl)),
                extended |-> Keep(parent.var_categories.extended, Range(vcl))]
        cn  == CutoffNamesOf(vc)
    IN [is_child |-> TRUE,
        H |-> Hsym,
        ext_basis |-> parent.ext_basis,
        system_hierarchy |-> Some(hier),
        subsystem_trunc_dims |-> td,
        truncated_dim |-> truncated_dim,
        hierarchical_diagonalization |-> IsHierarchical(hier),
        external_fluxes |-> flx,
        offset_charges |-> ngs,
        param_vars |-> prm,
        vals |-> [s \in Range(prm \o flx \o ngs) |-> parent.vals[s]],
        var_categories_list |-> vcl,
        var_categories |-> vc,
        cutoff_names |-> cn,
        cutoffs |-> [n \in Range(cn) |-> parent.cutoffs[n]],
        type_of_matrices |-> TypeOfMatrices(Len(vcl), parent.ext_basis),
        has_subsystems |-> FALSE,
        subsystem_hamiltonians |-> <<>>,
        subsystem_interactions |-> <<>>,
        subsystems |-> <<>>,
        has_hs |-> FALSE,
        hilbert_space |-> NoHilbertSpace,
        ops |-> NoOperators]

\* a child left with the default of the truncated_dim argument; the
\* dimension consistency of the tree tells it from the code
DefaultTruncatedDim(entry) == 10

\* truncated_dim / subsystem_trunc_dims handed to child `index`
ChildTruncatedDim(entry) == entry.d
ChildTruncDims(entry) == IF entry.isList THEN entry.sub ELSE None

\* whether build_hilbertspace would run to its end, and its outcome
TryBuildHilbertSpace(node, built) ==
    IF ~CanBuildHilbertSpace(node) THEN Res(FALSE, node, built)
    ELSE Res(TRUE, build_hilbertspace(node), built)

RECURSIVE GenerateSubsystems(_)
RECURSIVE BuildChildren(_, _, _, _)
RECURSIVE InitiateSubsystem(_)

\* Subsystem(self, systems_sym[index], ...) for child `k`
ConstructChild(node, k, entry) ==
    InitiateSubsystem(
        NewSubsystem(node, node.subsystem_hamiltonians[k],
                     node.system_hierarchy.v[k].sub,
                     ChildTruncDims(entry), ChildTruncatedDim(entry)))

\* the list comprehension after the construction of child `k` ended as c
NextChild(node, k, acc, built, c) ==
    IF ~c.ok THEN [ok |-> FALSE, kids |-> acc, built |-> built + c.built]
    ELSE BuildChildren(node, k + 1, Append(acc, c.node), built + c.built)

\* the list comprehension that constructs the child Subsystem objects, in
\* order; it stops at the first exception
BuildChildren(node, k, acc, built) ==
    IF k > Len(node.system_hierarchy.v) THEN [ok |-> TRUE, kids |-> acc, built |-> built]
    ELSE IF ~node.subsystem_trunc_dims.some \/ k > Len(node.subsystem_trunc_dims.v)
    THEN [ok |-> FALSE, kids |-> acc, built |-> built]  \* TypeError / IndexError
    ELSE NextChild(node, k, acc, built,
                   ConstructChild(node, k, node.subsystem_trunc_dims.v[k]))

\* self.subsystem_hamiltonians = ...; self.subsystem_interactions = ...
StorePartition(node, part) ==
    [node EXCEPT !.subsystem_hamiltonians = part.sys,
                 !.subsystem_interactions = part.int]

\* self.subsystems = ... : assigned only when every child was constructed
StoreSubsystems(node, kids) ==
    IF kids.ok
    THEN Res(TRUE, [node EXCEPT !.subsystems = kids.kids, !.has_subsystems = TRUE],
             kids.built)
    ELSE Res(FALSE, node, kids.built)

ConstructSubsystems(node) == StoreSubsystems(node, BuildChildren(node, 1, <<>>, 0))

\* generate_subsystems: the two dictionaries of symbolic terms are stored
\* first, the children are constructed next and stored last
GenerateSubsystems(node) ==
    ConstructSubsystems(
        StorePartition(node, PartitionLoop(node.H, node.system_hierarchy.v,
                                           node.param_vars)))

\* generate_subsystems(); set_operators(); build_hilbertspace() of a child
\* under construction, g the outcome of generate_subsystems
InitiateHierarchical(g) ==
    IF ~g.ok THEN Res(FALSE, g.node, 1 + g.built)
    ELSE TryBuildHilbertSpace(set_operators(g.node), 1 + g.built)

\* the tail of _initiate_subsystem; built counts the Subsystem objects
\* whose construction was started
InitiateSubsystem(node) ==
    IF node.hierarchical_diagonalization
    THEN InitiateHierarchical(GenerateSubsystems(node))
    ELSE Res(TRUE, set_operators(node), 1)

\* generate_subsystems(); build_hilbertspace() on an existing node, g the
\* outcome of generate_subsystems
RegenerateAndBuild(g) ==
    IF ~g.ok THEN g ELSE TryBuildHilbertSpace(g.node, g.built)


(***************************************************************************)
(* The tree: paths from the root to a node                                 *)
(***************************************************************************)
HasChildren(node) == node.hierarchical_diagonalization /\ node.has_subsystems

RECURSIVE Paths(_)
Paths(node) ==
    {<<>>} \cup
    (IF HasChildren(node)
     THEN UNION {{<<k>> \o q : q \in Paths(node.subsystems[k])}
                   : k \in DOMAIN node.subsystems}
     ELSE {})

RECURSIVE NodeAt(_, _)
NodeAt(node, p) == IF p = <<>> THEN node ELSE NodeAt(node.subsystems[Head(p)], Tail(p))

RECURSIVE SetOnClass(_, _, _)
\* a setter whose value lands on the class the property lives on, so that
\* the siblings of the node take what the node was set to; the frame of the
\* setters tells it from the code
SetOnClass(node, p, new) ==
    IF p = <<>> THEN new
    ELSE [node EXCEPT !.subsystems =
            [k \in DOMAIN node.subsystems |->
               IF k = Head(p) THEN SetOnClass(node.subsystems[k], Tail(p), new)
               ELSE IF Tail(p) = <<>> THEN new
               ELSE node.subsystems[k]]]

RECURSIVE ReplaceAt(_, _, _)
ReplaceAt(node, p, new) ==
    IF p = <<>> THEN new
    ELSE [node EXCEPT !.subsystems[Head(p)] = ReplaceAt(@, Tail(p), new)]

IsPrefix(q, p) == Len(q) <= Len(p) /\ SubSeq(p, 1, Len(q)) = q

(***************************************************************************)
(* The property setters                                                    *)
(***************************************************************************)
\* setattr(self, "_" + param_name, value)
SetVal(node, s, value) == [node EXCEPT !.vals[s] = value]
SetCutoffVal(node, c, value) == [node EXCEPT !.cutoffs[c] = value]

\* _set_property_and_update_param_vars after the setattr
UpdateParamVars(node) ==
    IF node.hierarchical_diagonalization
    THEN RegenerateAndBuild(GenerateSubsystems(node))
    ELSE Res(TRUE, set_operators(node), 0)

\* _set_property_and_update_param_vars
SetParamVars(node, s, value) == UpdateParamVars(SetVal(node, s, value))

RECURSIVE SetExtFluxOrCharge(_, _, _)
\* _set_property_and_update_ext_flux_or_charge after the setattr;
\* hasattr(subsys, name) holds exactly for the subsystems that were given
\* the property
UpdateExtFluxOrCharge(node, s, value) ==
    IF node.hierarchical_diagonalization
    THEN IF ~node.has_subsystems THEN Res(FALSE, node, 0)
         ELSE Res(TRUE,
                  [node EXCEPT !.subsystems =
                     [k \in DOMAIN node.subsystems |->
                        IF s \in DOMAIN node.subsystems[k].vals
                        THEN SetExtFluxOrCharge(node.subsystems[k], s, value).node
                        ELSE node.subsystems[k]]],
                  0)
    ELSE Res(TRUE, node, 0)

\* _set_property_and_update_ext_flux_or_charge
SetExtFluxOrCharge(node, s, value) == UpdateExtFluxOrCharge(SetVal(node, s, value), s, value)

\* a cutoff setter that leaves the subsystems alone; downward propagation
\* tells it from the code
KeepSubsystems(node, c, value) == node

RECURSIVE SetCutoffs(_, _, _)
\* for subsys in self.subsystems.values(): if hasattr(...): setattr(...)
CutoffToSubsystems(node, c, value) ==
    [node EXCEPT !.subsystems =
       [k \in DOMAIN node.subsystems |->
          IF c \in DOMAIN node.subsystems[k].cutoffs
          THEN SetCutoffs(node.subsystems[k], c, value).node
          ELSE node.subsystems[k]]]

\* _set_property_and_update_cutoffs after the setattr
UpdateCutoffs(node, c, value) ==
    IF node.hierarchical_diagonalization
    THEN IF ~node.has_subsystems THEN Res(FALSE, node, 0)
         ELSE TryBuildHilbertSpace(set_operators(CutoffToSubsystems(node, c, value)), 0)
    ELSE Res(TRUE, set_operators(node), 0)

\* _set_property_and_update_cutoffs
SetCutoffs(node, c, value) == UpdateCutoffs(SetCutoffVal(node, c, value), c, value)

(***************************************************************************)
(* The circuits checked: three variables, 1 and 2 periodic, 3 extended,    *)
(* discretized basis.  Every variable has its kinetic term; the other      *)
(* terms are drawn at construction.                                        *)
(***************************************************************************)
VarCategories == [periodic |-> <<1, 2>>, extended |-> <<3>>]

MonoK1  == "n1**2"
MonoK2  == "n2**2"
MonoK3  == "Qs3"
MonoJ1  == "EJ*thc1"
MonoNg1 == "I*n1*ng_1"
MonoNgSq == "I**2*ng_1**2"
MonoJ2  == "EJ1*thc2"
MonoJ4  == "EJ4*thc1"
MonoX12 == "n1*n2"
MonoX23 == "EJ*thc2*thc3"
MonoF   == "EJ*cos(I*Phi1)*thc1*thc2*thc3"

BaseMonos == {MonoK1, MonoK2, MonoK3, MonoJ1, MonoNg1, MonoNgSq}

\* the terms added to the kinetic and single-junction terms: the two
\* pairwise couplings, and these with the flux-threaded three-body term and
\* the junction whose parameter is named EJ1
OptionalMonos ==
    {{MonoX12, MonoX23}, {MonoJ2, MonoX12, MonoX23, MonoF}}

\* the rational coefficient of each monomial of the circuits
MonoCoef(m) ==
    CASE m = MonoK1 -> 4
      [] m = MonoK2 -> 4
      [] m = MonoK3 -> 2
      [] m = MonoJ1 -> -1
      [] m = MonoNg1 -> -8
      [] m = MonoNgSq -> 4
      [] m = MonoJ2 -> -1
      [] m = MonoJ4 -> -1
      [] m = MonoX12 -> 3
      [] m = MonoX23 -> -2
      [] m = MonoF -> -1

CanonicalHamiltonians ==
    {[m \in BaseMonos \cup opt |-> MonoCoef(m)] : opt \in OptionalMonos}

\* param_init_vals of the symbolic circuit
ParamInitVal(s) == 1

\* the values a client sets: parameters away from their initial value,
\* fluxes and offset charges away from zero, cutoffs below their defaults
ParamVals == {ParamInitVal(SymEJ) + k : k \in 1..MaxParam}
FluxVals == 1..MaxFlux
CutoffVals == 1..MaxCutoff

\* [[1],[2,3]], [[1],[[2],[3]]] and [[1],[2],[3]]
HierA == <<Grp(<<Idx(1)>>), Grp(<<Idx(2), Idx(3)>>)>>
HierB == <<Grp(<<Idx(1)>>), Grp(<<Grp(<<Idx(2)>>), Grp(<<Idx(3)>>)>>)>>
HierC == <<Grp(<<Idx(1)>>), Grp(<<Idx(2)>>), Grp(<<Idx(3)>>)>>
Hierarchies == {HierA, HierB, HierC}

RECURSIVE FullTruncDims(_)
\* truncated dimensions with an entry for every group of a hierarchy:
\* k+1 for group k, [k+1, sub] for a nested group
FullTruncDims(hier) ==
    [k \in DOMAIN hier |->
        IF IsFlatList(hier[k].sub) THEN TdInt(k + 1)
        ELSE TdList(k + 1, FullTruncDims(hier[k].sub))]

\* the same with the last group's entry missing
ShortTruncDims(hier) == SubSeq(FullTruncDims(hier), 1, Len(hier) - 1)

\* the same with no nested list for a nested group
TopTruncDims(hier) == [k \in DOMAIN hier |-> TdInt(k + 1)]

TruncDimsFor(hier) ==
    {Some(FullTruncDims(hier)), Some(ShortTruncDims(hier)),
     Some(TopTruncDims(hier)), None}

(***************************************************************************)
(* Circuit.__init__ and initiate_circuit                                   *)
(***************************************************************************)
\* the attributes Circuit.__init__ sets before it calls initiate_circuit
NewCircuit(H, hier, td) ==
    LET fs == free_symbols(H)
        prm == Keep(<<SymEJ, SymEJ1, SymEJ4>>, fs)
        flx == Keep(<<SymFlux(1)>>, fs)
        ngs == Keep(<<SymNg(1)>>, fs)
    IN [is_child |-> FALSE,
        H |-> H,
        ext_basis |-> "discretized",
        system_hierarchy |-> hier,
        subsystem_trunc_dims |-> td,
        truncated_dim |-> 0,
        hierarchical_diagonalization |-> FALSE,
        external_fluxes |-> flx,
        offset_charges |-> ngs,
        param_vars |-> prm,
        vals |-> [s \in {} |-> 0],
        var_categories_list |-> <<>>,
        var_categories |-> VarCategories,
        cutoff_names |-> <<>>,
        cutoffs |-> [n \in {} |-> 0],
        type_of_matrices |-> "sparse",
        has_subsystems |-> FALSE,
        subsystem_hamiltonians |-> <<>>,
        subsystem_interactions |-> <<>>,
        subsystems |-> <<>>,
        has_hs |-> FALSE,
        hilbert_space |-> NoHilbertSpace,
        ops |-> NoOperators]

\* `a or b` on optional lists: None and [] are falsy
OrElse(a, b) == IF a.some /\ a.v # <<>> THEN a ELSE b

DefaultCutoff(n) == IF CutInfo[n].type = "cutoff_n" THEN DefaultCutoffN ELSE DefaultCutoffExt

\* initiate_circuit up to the creation of the properties: cutoffs back to
\* their defaults, parameters to their initial values, fluxes and offset
\* charges to zero
ResetProperties(node) ==
    LET cn == CutoffNamesOf(node.var_categories)
    IN [node EXCEPT
          !.cutoff_names = cn,
          !.cutoffs = [n \in Range(cn) |-> DefaultCutoff(n)],
          !.vals = [s \in Range(node.param_vars \o node.external_fluxes
                                \o node.offset_charges) |->
                      IF KindOf(s) = "param" THEN ParamInitVal(s) ELSE 0],
          !.type_of_matrices =
              IF Len(node.var_categories.periodic)
                 + Len(node.var_categories.extended) = 1
                 /\ node.ext_basis = "harmonic"
              THEN "dense" ELSE node.type_of_matrices]

\* initiate_circuit after the properties were created
InitiateHierarchy(node, system_hierarchy, subsystem_trunc_dims) ==
    IF ~node.hierarchical_diagonalization THEN Res(TRUE, set_operators(node), 0)
    ELSE IF ~subsystem_trunc_dims.some
    THEN Res(FALSE, [node EXCEPT !.system_hierarchy = system_hierarchy], 0)
    ELSE GenerateSubsystems(
             [node EXCEPT !.system_hierarchy = system_hierarchy,
                          !.subsystem_trunc_dims = subsystem_trunc_dims])

\* initiate_circuit with `system_hierarchy or self.system_hierarchy` and
\* `subsystem_trunc_dims or self.subsystem_trunc_dims` already taken
InitiateWith(node, system_hierarchy, subsystem_trunc_dims) ==
    InitiateHierarchy(
        [ResetProperties(node) EXCEPT !.hierarchical_diagonalization =
            system_hierarchy.some /\ IsHierarchical(system_hierarchy.v)],
        system_hierarchy, subsystem_trunc_dims)

initiate_circuit(node, hier_arg, td_arg) ==
    InitiateWith(node, OrElse(hier_arg, node.system_hierarchy),
                 OrElse(td_arg, node.subsystem_trunc_dims))

\* set_system_hierarchy
set_system_hierarchy(node, hier, td) ==
    RegenerateAndBuild(
        GenerateSubsystems([node EXCEPT !.hierarchical_diagonalization = TRUE,
                                        !.system_hierarchy = Some(hier),
                                        !.subsystem_trunc_dims = td]))

(***************************************************************************)
(* The state machine                                                       *)
(***************************************************************************)
NoSym == ""

\* no call of a stateless function was made
NoCall == [fn |-> ""]

\* no SpectrumLookup was constructed
NoLookup == <<>>

\* the record of a call: the operation, the node it was called on, the
\* symbol and value of a setter, the hierarchy and truncated dimensions a
\* structural call asked for, whether it returned (ok) or raised, the
\* number of Subsystem constructions it started, and whether every call
\* since construction returned (clean)
Last(op, path, sym, value, hier, td, res, clean) ==
    [op |-> op, path |-> path, sym |-> sym, value |-> value,
     hier |-> hier, td |-> td,
     ok |-> res.ok, built |-> res.built, clean |-> clean /\ res.ok]

\* a Circuit constructed without a hierarchy, or with the nested hierarchy
\* and a truncated dimension for every group (a constructor that raises
\* leaves no object behind)
ConstructorArgs ==
    {<<None, None>>, <<Some(HierB), Some(FullTruncDims(HierB))>>}

InitWith(a, res) ==
    /\ res.ok
    /\ root = res.node
    /\ last = Last("__init__", <<>>, NoSym, 0, a[1], a[2], res, TRUE)
    /\ nops = 0
    /\ call = NoCall
    /\ lookup = NoLookup

Init ==
    \E H \in CanonicalHamiltonians, a \in ConstructorArgs :
        InitWith(a, initiate_circuit(NewCircuit(H, a[1], a[2]), None, None))

Step(op, path, sym, value, hier, td, res) ==
    /\ nops < MaxOps
    /\ root' = ReplaceAt(root, path, res.node)
    /\ last' = Last(op, path, sym, value, hier, td, res, last.clean)
    /\ nops' = nops + 1
    /\ UNCHANGED <<call, lookup>>

InitiateCircuit ==
    \E h \in {None, Some(HierB)} :
      \E td \in IF h.some THEN TruncDimsFor(h.v) ELSE {None} :
        Step("initiate_circuit", <<>>, NoSym, 0,
             OrElse(h, root.system_hierarchy), OrElse(td, root.subsystem_trunc_dims),
             initiate_circuit(root, h, td))

SetSystemHierarchy ==
    \E h \in Hierarchies : \E td \in TruncDimsFor(h) :
        Step("set_system_hierarchy", <<>>, NoSym, 0, Some(h), td,
             set_system_hierarchy(root, h, td))

SetParam ==
    \E p \in Paths(root) :
      \E s \in Range(NodeAt(root, p).param_vars), v \in ParamVals :
        Step("set_param", p, s, v, None, None, SetParamVars(NodeAt(root, p), s, v))

SetFluxOrCharge ==
    \E p \in Paths(root) :
      \E s \in Range(NodeAt(root, p).external_fluxes \o NodeAt(root, p).offset_charges),
         v \in FluxVals :
        Step("set_flux_or_charge", p, s, v, None, None,
             SetExtFluxOrCharge(NodeAt(root, p), s, v))

SetCutoff ==
    \E p \in Paths(root) :
      \E c \in Range(NodeAt(root, p).cutoff_names), v \in CutoffVals :
        Step("set_cutoff", p, c, v, None, None, SetCutoffs(NodeAt(root, p), c, v))

Next ==
    \/ InitiateCircuit
    \/ SetSystemHierarchy
    \/ SetParam
    \/ SetFluxOrCharge
    \/ SetCutoff

Spec == Init /\ [][Next]_vars

(***************************************************************************)
(* Functions that keep no state, checked call by call.  The objects of the *)
(* tree play no part in them: no Circuit is constructed.                   *)
(***************************************************************************)
NoCircuit == <<>>

PureInit ==
    /\ root = NoCircuit
    /\ last = NoCircuit
    /\ nops = 0
    /\ call = NoCall
    /\ lookup = NoLookup

\* a call with its arguments, what the library routine under it returned,
\* and its result; one call is followed, whichever it is
Call(fn, in, raw, out) ==
    /\ call = NoCall
    /\ call' = [fn |-> fn, in |-> in, raw |-> raw, out |-> out]
    /\ UNCHANGED <<root, last, nops, lookup>>

(***************************************************************************)
(* _evals_calc and _esys_calc.  A Hamiltonian matrix is known by its       *)
(* eigenpairs: spectrum[j] is the eigenvalue of eigenvector j.             *)
(***************************************************************************)
MaxDim == 3          \* dimension of the Hamiltonian matrices
MaxEval == 2         \* eigenvalues are 0..MaxEval

Spectra == UNION {[1..n -> 0..MaxEval] : n \in 1..MaxDim}

IsAscending(s) == \A i, j \in DOMAIN s : i < j => s[i] <= s[j]

\* the orderings of k of the eigenvectors with the smallest eigenvalues
\* (which="SA", subset_by_index=[0, k - 1]), as columns
LowestColumns(spectrum, k) ==
    {p \in [1..k -> DOMAIN spectrum] :
        /\ \A i, j \in 1..k : i # j => p[i] # p[j]
        /\ \A i \in 1..k : \A j \in DOMAIN spectrum \ Range(p) :
              spectrum[p[i]] <= spectrum[j]}

EigenvaluesOf(spectrum, evecs) == [i \in DOMAIN evecs |-> spectrum[evecs[i]]]

\* sparse.linalg.eigsh: the k smallest eigenvalues with their eigenvectors,
\* in an order the routine does not promise
eigsh(spectrum, k) ==
    {[evals |-> EigenvaluesOf(spectrum, p), evecs |-> p] : p \in LowestColumns(spectrum, k)}

\* sp.linalg.eigh / eigvalsh: the same in ascending order
eigh(spectrum, k) ==
    {r \in eigsh(spectrum, k) : IsAscending(r.evals)}

\* the branch on type_of_matrices
Diagonalize(type_of_matrices, spectrum, k) ==
    IF type_of_matrices = "sparse" THEN eigsh(spectrum, k) ELSE eigh(spectrum, k)

\* the permutations that sort a sequence (argsort; ties in any order)
ArgSorts(s) ==
    {pi \in [DOMAIN s -> DOMAIN s] :
        /\ \A i, j \in DOMAIN s : i # j => pi[i] # pi[j]
        /\ IsAscending([i \in DOMAIN s |-> s[pi[i]]])}

\* np.sort
np_sort(s) == LET pi == CHOOSE q \in ArgSorts(s) : TRUE IN [i \in DOMAIN s |-> s[pi[i]]]

\* the eigenvalues as the library routine returned them
UnsortedEvals(evals) == evals

\* _evals_calc: return np.sort(evals)
evals_calc(evals) == np_sort(evals)

\* order_eigensystem: eigenvalues ascending, eigenvector columns permuted
\* by the same permutation
order_eigensystem(evals, evecs) ==
    {[evals |-> [i \in DOMAIN evals |-> evals[pi[i]]],
      evecs |-> [i \in DOMAIN evecs |-> evecs[pi[i]]]] : pi \in ArgSorts(evals)}

\* _esys_calc: evals, evecs = order_eigensystem(evals, evecs)
esys_calc(r) == order_eigensystem(r.evals, r.evecs)

MatrixTypes == {"sparse", "dense"}

EvalsCalc ==
    /\ call = NoCall
    /\ \E spectrum \in Spectra, t \in MatrixTypes :
          \E k \in DOMAIN spectrum :
            \E r \in Diagonalize(t, spectrum, k) :
              Call("_evals_calc", [spectrum |-> spectrum, evals_count |-> k, type |-> t],
                   r, evals_calc(r.evals))

EsysCalc ==
    /\ call = NoCall
    /\ \E spectrum \in Spectra, t \in MatrixTypes :
          \E k \in DOMAIN spectrum :
            \E r \in Diagonalize(t, spectrum, k) :
              \E out \in esys_calc(r) :
                Call("_esys_calc", [spectrum |-> spectrum, evals_count |-> k, type |-> t],
                     r, out)

(***************************************************************************)
(* truncation_template                                                     *)
(***************************************************************************)
MaxTruncDim == 2     \* truncated dimensions passed by a client are 1..MaxTruncDim

DefaultIndividualTruncDim == 6    \* individual_trunc_dim: int = 6
DefaultCombinedTruncDim == 50     \* combined_trunc_dim: int = 50

RECURSIVE truncation_template(_, _, _)
\* the nested call passes the group alone: the two dimensions take their
\* default values there
truncation_template(system_hierarchy, individual_trunc_dim, combined_trunc_dim) ==
    [k \in DOMAIN system_hierarchy |->
        IF IsFlatList(system_hierarchy[k].sub)
        THEN TdInt(individual_trunc_dim)
        ELSE TdList(combined_trunc_dim,
                    truncation_template(system_hierarchy[k].sub,
                                        DefaultIndividualTruncDim,
                                        DefaultCombinedTruncDim))]

\* [[1],[[2],[[3],[4]]]]
HierD == <<Grp(<<Idx(1)>>),
           Grp(<<Grp(<<Idx(2)>>), Grp(<<Grp(<<Idx(3)>>), Grp(<<Idx(4)>>)>>)>>)>>

\* the arguments of the calls followed: the defaults and small values
IndividualTruncDims == 1..MaxTruncDim \cup {DefaultIndividualTruncDim}
CombinedTruncDims == 1..MaxTruncDim \cup {DefaultCombinedTruncDim}

NoRaw == <<>>

TruncationTemplate ==
    /\ call = NoCall
    /\ \E h \in Hierarchies \cup {HierD}, i \in IndividualTruncDims, c \in CombinedTruncDims :
            Call("truncation_template",
                 [system_hierarchy |-> h, individual_trunc_dim |-> i,
                  combined_trunc_dim |-> c],
                 NoRaw, truncation_template(h, i, c))

(***************************************************************************)
(* _set_vars, circuit_operators and the binding made by set_operators.  A  *)
(* dictionary of lists is the sequence of its (key, list) items in         *)
(* insertion order; an operator matrix is known by the kind of operator    *)
(* it was computed as and the variable index it was embedded for.          *)
(***************************************************************************)
\* every variable of a node is periodic or extended; a node has a variable
VarCategoryChoices ==
    {[periodic |-> SortedSeqOf(pe[1]), extended |-> SortedSeqOf(pe[2])] :
        pe \in {qe \in (SUBSET OperatorVarIndices) \X (SUBSET OperatorVarIndices) :
                  qe[1] \cap qe[2] = {} /\ qe[1] \cup qe[2] # {}}}

Item(key, list) == [key |-> key, list |-> list]

SymA(i)  == "a" \o Digit(i)
SymAd(i) == "ad" \o Digit(i)
SymNh(i) == "Nh" \o Digit(i)

\* self.vars["periodic"] and self.vars["extended"]
VarsPeriodic(vc) ==
    <<Item("sin", [k \in DOMAIN vc.periodic |-> SymSin(vc.periodic[k])]),
      Item("cos", [k \in DOMAIN vc.periodic |-> SymCos(vc.periodic[k])]),
      Item("number", [k \in DOMAIN vc.periodic |-> SymN(vc.periodic[k])])>>

VarsExtended(vc, ext_basis) ==
    IF ext_basis = "discretized"
    THEN <<Item("position", [k \in DOMAIN vc.extended |-> SymPos(vc.extended[k])]),
           Item("momentum", [k \in DOMAIN vc.extended |-> SymQ(vc.extended[k])]),
           Item("momentum_squared", [k \in DOMAIN vc.extended |-> SymQs(vc.extended[k])]),
           Item("sin", [k \in DOMAIN vc.extended |-> SymSin(vc.extended[k])]),
           Item("cos", [k \in DOMAIN vc.extended |-> SymCos(vc.extended[k])])>>
    ELSE <<Item("annihilation", [k \in DOMAIN vc.extended |-> SymA(vc.extended[k])]),
           Item("creation", [k \in DOMAIN vc.extended |-> SymAd(vc.extended[k])]),
           Item("number", [k \in DOMAIN vc.extended |-> SymNh(vc.extended[k])]),
           Item("position", [k \in DOMAIN vc.extended |-> SymPos(vc.extended[k])]),
           Item("momentum", [k \in DOMAIN vc.extended |-> SymQ(vc.extended[k])]),
           Item("sin", [k \in DOMAIN vc.extended |-> SymSin(vc.extended[k])]),
           Item("cos", [k \in DOMAIN vc.extended |-> SymCos(vc.extended[k])])>>

\* the matrix of one kind of operator of variable index, identity-wrapped
Op(kind, index) == [kind |-> kind, index |-> index]

\* circuit_operators: ops["periodic"]
OpsPeriodic(vc) ==
    <<Item("sin", [k \in DOMAIN vc.periodic |-> Op("sin", vc.periodic[k])]),
      Item("cos", [k \in DOMAIN vc.periodic |-> Op("cos", vc.periodic[k])]),
      Item("number", [k \in DOMAIN vc.periodic |-> Op("number", vc.periodic[k])])>>

\* circuit_operators: ops["extended"], the keys in the order of the
\* dictionary literal, each list as the loops fill it
OpsExtended(vc, ext_basis) ==
    IF ext_basis = "discretized"
    THEN <<Item("position", [k \in DOMAIN vc.extended |-> Op("position", vc.extended[k])]),
           Item("momentum", [k \in DOMAIN vc.extended |-> Op("momentum", vc.extended[k])]),
           Item("momentum_squared",
                [k \in DOMAIN vc.extended |-> Op("momentum_squared", vc.extended[k])]),
           Item("cos", [k \in DOMAIN vc.extended |-> Op("cos", vc.extended[k])]),
           Item("sin", [k \in DOMAIN vc.extended |-> Op("sin", vc.extended[k])])>>
    ELSE <<Item("annihilation", [k \in DOMAIN vc.extended |-> Op("creation", vc.extended[k])]),
           Item("creation", [k \in DOMAIN vc.extended |-> Op("annihilation", vc.extended[k])]),
           Item("number", [k \in DOMAIN vc.extended |-> Op("number", vc.extended[k])]),
           Item("position", [k \in DOMAIN vc.extended |-> Op("position", vc.extended[k])]),
           Item("momentum", [k \in DOMAIN vc.extended |-> Op("momentum", vc.extended[k])]),
           Item("sin", [k \in DOMAIN vc.extended |-> Op("sin", vc.extended[k])]),
           Item("cos", [k \in DOMAIN vc.extended |-> Op("cos", vc.extended[k])])>>

RECURSIVE flatten_list(_)
\* flatten_list(d.values()): the lists of a dictionary, concatenated
flatten_list(items) ==
    IF items = <<>> THEN <<>> ELSE Head(items).list \o flatten_list(Tail(items))

\* variable_symbols_list and operator_list of set_operators
VariableSymbolsList(vc, ext_basis) ==
    flatten_list(VarsPeriodic(vc)) \o flatten_list(VarsExtended(vc, ext_basis)) \o <<SymI>>

OperatorList(vc, ext_basis) ==
    flatten_list(OpsPeriodic(vc)) \o flatten_list(OpsExtended(vc, ext_basis))
    \o <<Op("identity", 0)>>

\* for x, operator in enumerate(variable_symbols_list):
\*     setattr(self, operator.name, operator_list[x])
BoundOperators(symbols, operators) ==
    [s \in Range(symbols) |->
        operators[CHOOSE x \in DOMAIN symbols :
                     symbols[x] = s /\ \A y \in DOMAIN symbols : symbols[y] = s => y <= x]]

SetOperators ==
    /\ call = NoCall
    /\ \E vc \in VarCategoryChoices, b \in {"discretized", "harmonic"} :
            Call("set_operators", [var_categories |-> vc, ext_basis |-> b],
                 OperatorList(vc, b),
                 BoundOperators(VariableSymbolsList(vc, b), OperatorList(vc, b)))

(***************************************************************************)
(* _kron_operator, called by circuit_operators on a leaf node              *)
(***************************************************************************)
MaxKronCutoff == 2   \* cutoffs of the leaf nodes are 1..MaxKronCutoff

\* the attributes of a leaf node that get_cutoffs and hilbertdim read
LeafNode(vc, cutoffs) ==
    [hierarchical_diagonalization |-> FALSE,
     var_categories |-> vc,
     cutoff_names |-> CutoffNamesOf(vc),
     cutoffs |-> cutoffs]

LeafNodes ==
    UNION {{LeafNode(vc, c) : c \in [Range(CutoffNamesOf(vc)) -> 1..MaxKronCutoff]}
             : vc \in VarCategoryChoices}

\* dict(zip(keys, values))[key]
ZipLookup(keys, values, key) ==
    values[CHOOSE k \in DOMAIN keys :
              keys[k] = key /\ \A j \in DOMAIN keys : keys[j] = key => j <= k]

\* circuit_operators: cutoffs = dict(zip(index_list, cutoff_names)), and the
\* dimension of the elementary operator built from cutoffs[index]
ElementaryDim(node, index) ==
    LET index_list == node.var_categories.periodic \o node.var_categories.extended
        cutoff_list == get_cutoffs(node, "cutoff_n") \o get_cutoffs(node, "cutoff_ext")
    IN IF InList(node.var_categories.periodic, index)
       THEN PeriodicDim(ZipLookup(index_list, cutoff_list, index))
       ELSE ExtendedDim(ZipLookup(index_list, cutoff_list, index))

\* cutoff_names of _kron_operator: cutoffs_index_dict[i] for the sorted
\* variable indices
KronDims(node, var_index_list) ==
    [k \in DOMAIN var_index_list |->
        ZipLookup(node.var_categories.periodic \o node.var_categories.extended,
                  FlatDims(node), var_index_list[k])]

\* the identity factors and the dimension of the product
KronFactors(dims, pos, op_dim) ==
    [Identity_l |-> IF Len(dims) > 1 /\ pos > 1
                    THEN Some(SeqProd(SubSeq(dims, 1, pos - 1))) ELSE None,
     Identity_r |-> IF Len(dims) > 1 /\ pos < Len(dims)
                    THEN Some(SeqProd(SubSeq(dims, pos + 1, Len(dims)))) ELSE None,
     dim |-> SeqProd([dims EXCEPT ![pos] = op_dim])]

\* _kron_operator(operator, index), op_dim the dimension of operator
kron_operator(node, op_dim, index) ==
    KronFactors(
        KronDims(node, SortedSeqOf(Range(node.var_categories.periodic
                                         \o node.var_categories.extended))),
        ListIndex(SortedSeqOf(Range(node.var_categories.periodic
                                    \o node.var_categories.extended)), index),
        op_dim)

KronOperator ==
    /\ call = NoCall
    /\ \E node \in LeafNodes :
          \E index \in Range(node.var_categories.periodic \o node.var_categories.extended) :
            Call("_kron_operator", [node |-> node, index |-> index],
                 ElementaryDim(node, index),
                 kron_operator(node, ElementaryDim(node, index), index))

(***************************************************************************)
(* _replace_mat_mul_operator and _get_eval_hamiltonian_string.  A monomial *)
(* is the sequence of its factors in the order str(term) prints them; a    *)
(* factor is an operator symbol with its power.  The string the code       *)
(* builds is known by its tokens: the factors it holds, how each power is  *)
(* written and the sign that joins the factors.                            *)
(***************************************************************************)
MaxFactors == 2      \* operator symbols of a monomial
MaxPower == 2        \* powers of an operator symbol are 1..MaxPower

\* the leaf nodes whose Hamiltonian strings are followed: one variable and
\* two, periodic and extended
StringVarCategories ==
    {[periodic |-> <<>>, extended |-> <<1>>], [periodic |-> <<1>>, extended |-> <<>>],
     [periodic |-> <<1>>, extended |-> <<2>>], [periodic |-> <<>>, extended |-> <<1, 2>>]}

RECURSIVE SymbolsOfItems(_, _)
\* the operator symbols of one category of vars with their kind and the
\* variable index get_trailing_number reads off their name
SymbolsOfItems(items, var_indices) ==
    IF items = <<>> THEN <<>>
    ELSE [k \in DOMAIN Head(items).list |->
             [sym |-> Head(items).list[k], kind |-> Head(items).key,
              index |-> var_indices[k]]]
         \o SymbolsOfItems(Tail(items), var_indices)

NodeSymbols(vc, ext_basis) ==
    SymbolsOfItems(VarsPeriodic(vc), vc.periodic)
    \o SymbolsOfItems(VarsExtended(vc, ext_basis), vc.extended)

\* the monomials of a node: one to MaxFactors of its operator symbols, each
\* once, in the order of the symbol list, at most one of them to a power
\* above 1
Monomials(vc, ext_basis) ==
    LET syms == NodeSymbols(vc, ext_basis)
    IN UNION {{[x \in 1..n |-> [sym |-> syms[pos[x]].sym, kind |-> syms[pos[x]].kind,
                                index |-> syms[pos[x]].index, pow |-> pw[x]]]
                 : pos \in {q \in [1..n -> DOMAIN syms] :
                               \A i, j \in 1..n : i < j => q[i] < q[j]},
                   pw \in {q \in [1..n -> 1..MaxPower] :
                              \A i, j \in 1..n : (q[i] > 1 /\ q[j] > 1) => i = j}}
              : n \in 1..MaxFactors}

\* "*" in str(term) and "**" in str(term)
HasStar(term) == Len(term) > 1 \/ \E x \in DOMAIN term : term[x].pow > 1
HasPower(term) == \E x \in DOMAIN term : term[x].pow > 1

\* get_trailing_number(str(i)) for i in term.free_symbols
TermIndices(term) == {term[x].index : x \in DOMAIN term}

\* "Q" in var.name
NameHasQ(f) == f.kind \in {"momentum", "momentum_squared"}

is_mat_mul_replacement_necessary(node, term) ==
    Range(node.var_categories.extended) \cap TermIndices(term) # {} /\ HasStar(term)

\* a factor as the string writes it: by is "" for a bare symbol, "**" for
\* sym**pow, "@@" for what replace("*", "@") makes of it, "matrix_power"
\* for matrix_power(sym,pow)
Written(f, by) == [sym |-> f.sym, kind |-> f.kind, index |-> f.index, pow |-> f.pow, by |-> by]

\* str(term)
StrTerm(term) ==
    [factors |-> [x \in DOMAIN term |->
                     Written(term[x], IF term[x].pow > 1 THEN "**" ELSE "")],
     join |-> "*"]

\* str(term).replace("*", "@")
AllStarsReplaced(term) ==
    [factors |-> [x \in DOMAIN term |->
                     Written(term[x], IF term[x].pow > 1 THEN "@@" ELSE "")],
     join |-> "@"]

\* the discretized branch
ReplaceDiscretized(node, term) ==
    IF /\ Cardinality(TermIndices(term) \cap Range(node.var_categories.extended)) > 1
       /\ \A x \in DOMAIN term : NameHasQ(term[x])
    THEN AllStarsReplaced(term)
    ELSE StrTerm(term)

\* re.findall(r"[^*]+\*{2}", str(term)): the factors followed by "**"
PoweredFactors(term) == SelectSeq(term, LAMBDA f : f.pow > 1)

\* the harmonic branch: with a "**" in the term the string is joined from
\* the powered factors alone
HarmonicPowers(node, term) ==
    IF HasPower(term)
    THEN [x \in DOMAIN PoweredFactors(term) |->
             Written(PoweredFactors(term)[x],
                     IF InList(node.var_categories.extended, PoweredFactors(term)[x].index)
                     THEN "matrix_power" ELSE "**")]
    ELSE StrTerm(term).factors

\* if len(term.free_symbols) > 1: every single "*" becomes "@"
ReplaceHarmonic(node, term) ==
    [factors |-> HarmonicPowers(node, term),
     join |-> IF Len(term) > 1 THEN "@" ELSE "*"]

replace_mat_mul_operator(node, term) ==
    IF ~is_mat_mul_replacement_necessary(node, term) THEN StrTerm(term)
    ELSE IF node.ext_basis = "discretized" THEN ReplaceDiscretized(node, term)
    ELSE ReplaceHarmonic(node, term)

\* _get_eval_hamiltonian_string: one summand for each monomial of H, the
\* coefficient first, "+" before a positive one
get_eval_hamiltonian_string(node, H) ==
    [x \in DOMAIN H |->
        [plus |-> H[x].coeff > 0, coeff |-> H[x].coeff,
         term |-> replace_mat_mul_operator(node, H[x].term)]]

\* the attributes of a leaf node the string routines read
StringNode(vc, ext_basis) ==
    [var_categories |-> vc, ext_basis |-> ext_basis,
     type_of_matrices |->
         TypeOfMatrices(Len(vc.periodic) + Len(vc.extended), ext_basis)]

\* the Hamiltonians followed: a monomial alone, or after the first
\* operator symbol of the node taken as a monomial
StringHamiltonians(vc, ext_basis) ==
    LET first == <<[coeff |-> 2,
                    term |-> <<[sym |-> NodeSymbols(vc, ext_basis)[1].sym,
                                kind |-> NodeSymbols(vc, ext_basis)[1].kind,
                                index |-> NodeSymbols(vc, ext_basis)[1].index,
                                pow |-> 1]>>]>>
    IN UNION {{<<[coeff |-> -1, term |-> t]>>,
               first \o <<[coeff |-> 3, term |-> t]>>}
                : t \in Monomials(vc, ext_basis) \ {first[1].term}}

GetEvalHamiltonianString ==
    /\ call = NoCall
    /\ \E vc \in StringVarCategories, b \in {"discretized", "harmonic"} :
          \E H \in StringHamiltonians(vc, b) :
            Call("_get_eval_hamiltonian_string", [node |-> StringNode(vc, b), H |-> H],
                 NoRaw, get_eval_hamiltonian_string(StringNode(vc, b), H))

(***************************************************************************)
(* _cos_phi and _sin_phi.  A grid is known by the coordinates              *)
(* grid.make_linspace() returns; a diagonal matrix by its diagonal; a      *)
(* value of a trigonometric function by the function and its argument.     *)
(***************************************************************************)
MaxPtCount == 3      \* points of a grid; coordinates are 0..MaxPtCount

\* the grids followed: pt_count coordinates, ascending
Grids ==
    UNION {{g \in [1..n -> 0..MaxPtCount] : \A i, j \in 1..n : i < j => g[i] < g[j]}
             : n \in 1..MaxPtCount}

\* np.cos, elementwise
np_cos(xs) == [k \in DOMAIN xs |-> [fn |-> "cos", at |-> xs[k]]]

\* _cos_phi: diag_elements = np.cos(grid.make_linspace())
cos_phi(linspace) == np_cos(linspace)

\* _sin_phi: diag_elements = np.cos(grid.make_linspace())
sin_phi(linspace) == np_cos(linspace)

SinCosPhi ==
    /\ call = NoCall
    /\ \E linspace \in Grids :
          \/ Call("_cos_phi", [pt_count |-> Len(linspace)], linspace, cos_phi(linspace))
          \/ Call("_sin_phi", [pt_count |-> Len(linspace)], linspace, sin_phi(linspace))

(***************************************************************************)
(* type_of_matrices, _change_sparsity and the storage of the matrices      *)
(* _kron_operator returns.  A matrix is known here by its storage class:   *)
(* "csc" and "dia" are scipy sparse matrices, "ndarray" a dense array.     *)
(***************************************************************************)
MatrixFormats == {"csc", "dia", "ndarray"}

\* sparse.issparse(x)
issparse(x) == x \in {"csc", "dia"}

\* _change_sparsity
change_sparsity(node, x) ==
    IF issparse(x)
    THEN IF node.type_of_matrices = "sparse" THEN x ELSE "ndarray"
    ELSE IF node.type_of_matrices = "sparse" THEN "csc" ELSE "ndarray"

\* _kron_operator: sparse.kron(..., format=matrix_format) for a node with
\* several variables ("array" converts with toarray()), _change_sparsity
\* for a node with one
kron_format(node, x) ==
    IF Len(node.var_categories.periodic) + Len(node.var_categories.extended) > 1
    THEN IF node.type_of_matrices = "dense" THEN "ndarray" ELSE "csc"
    ELSE change_sparsity(node, x)

\* the canonical Hamiltonians of the nodes constructed call by call: those
\* of the state machine and one with a junction whose parameter is EJ4
ChildHamiltonians ==
    CanonicalHamiltonians
    \cup {[m \in BaseMonos \cup {MonoX12, MonoX23, MonoJ4} |-> MonoCoef(m)]}

ExtBases == {"discretized", "harmonic"}

\* a root Circuit constructed with ext_basis and the variables vc, its
\* properties created by initiate_circuit
RootWith(H, vc, ext_basis) ==
    ResetProperties([NewCircuit(H, None, None) EXCEPT !.var_categories = vc,
                                                     !.ext_basis = ext_basis])

\* child k of a root with the hierarchy hier, as Subsystem.__init__ sets
\* its attributes
ChildOf(parent, hier, k) ==
    NewSubsystem(parent,
                 PartitionLoop(parent.H, hier, parent.param_vars).sys[k],
                 hier[k].sub, None, 10)

\* what is recorded of a constructed node: its variables, basis and
\* storage, and the storage of what _kron_operator returns for an
\* elementary operator of each storage class
Constructed(node) ==
    [var_categories |-> node.var_categories,
     var_categories_list |-> node.var_categories_list,
     ext_basis |-> node.ext_basis,
     type_of_matrices |-> node.type_of_matrices,
     param_vars |-> node.param_vars,
     external_fluxes |-> node.external_fluxes,
     offset_charges |-> node.offset_charges,
     kron |-> [x \in MatrixFormats |-> kron_format(node, x)]]

ConstructRoot ==
    /\ call = NoCall
    /\ \E H \in ChildHamiltonians, vc \in StringVarCategories, b \in ExtBases :
          Call("Circuit.__init__", [var_categories |-> vc, ext_basis |-> b],
               NoRaw, Constructed(RootWith(H, vc, b)))

ConstructSubsystem ==
    /\ call = NoCall
    /\ \E H \in ChildHamiltonians, b \in ExtBases, hier \in Hierarchies :
          \E k \in DOMAIN hier :
            Call("Subsystem.__init__",
                 [H |-> H, ext_basis |-> b, system_hierarchy |-> hier, index |-> k],
                 NoRaw, Constructed(ChildOf(RootWith(H, VarCategories, b), hier, k)))

(***************************************************************************)
(* The cutoffs a child takes from its parent: the cutoff properties        *)
(* _initiate_subsystem creates and the attribute cutoffs_dict of           *)
(* Subsystem.__init__.                                                     *)
(***************************************************************************)
\* a in b, on the digits of two numbers
IsSubstring(a, b) ==
    \E o \in 1..(Len(b) - Len(a) + 1) : SubSeq(b, o, o + Len(a) - 1) = a

\* str(var_index) in cutoff_name (the digits of a cutoff name are those of
\* its variable index)
IndexInName(var_index, cutoff_name) ==
    IsSubstring(DecimalDigits(var_index), DecimalDigits(CutInfo[cutoff_name].idx))

\* for var_index in self.var_categories_list:
\*     for cutoff_name in self.parent.cutoff_names:
\*         if str(var_index) in cutoff_name:
\*             self.cutoffs_dict[var_index] = getattr(self.parent, cutoff_name)
cutoffs_dict(parent, var_categories_list) ==
    LET hits(i) == {k \in DOMAIN parent.cutoff_names :
                       IndexInName(i, parent.cutoff_names[k])}
        last_hit(i) == CHOOSE k \in hits(i) : \A j \in hits(i) : j <= k
    IN [i \in {j \in Range(var_categories_list) : hits(j) # {}} |->
           parent.cutoffs[parent.cutoff_names[last_hit(i)]]]

\* the var_categories and the cutoff properties of a child with the
\* variables var_categories_list
ChildCutoffs(parent, var_categories_list) ==
    LET vc == [periodic |-> Keep(parent.var_categories.periodic, Range(var_categories_list)),
               extended |-> Keep(parent.var_categories.extended, Range(var_categories_list))]
    IN [var_categories |-> vc,
        cutoffs |-> [n \in Range(CutoffNamesOf(vc)) |-> parent.cutoffs[n]],
        cutoffs_dict |-> cutoffs_dict(parent, var_categories_list)]

InheritCutoffs ==
    /\ call = NoCall
    /\ \E parent \in LeafNodes :
          \E vars_of_child \in SUBSET Range(parent.var_categories.periodic
                                           \o parent.var_categories.extended) \ {{}} :
            Call("Subsystem.__init__ (cutoffs)",
                 [parent |-> parent, var_categories_list |-> SortedSeqOf(vars_of_child)],
                 NoRaw, ChildCutoffs(parent, SortedSeqOf(vars_of_child)))

(***************************************************************************)
(* generate_hamiltonian_sym_for_numerics.  The expanded symbolic           *)
(* Hamiltonian is a potential of the extended variables 1 and 2,           *)
(*   K11*th1**2 + K12*th1*th2 + K22*th2**2 + b1*th1 + b2*th2,              *)
(* and a set of further terms, each the set of the symbols it is made of   *)
(* (the empty set is a plain number).  Rationals are pairs <<num, den>>.   *)
(***************************************************************************)
MaxStiffness == 2    \* K11, K12, K22 are 0..MaxStiffness
MaxLinear == 1       \* b1, b2 are -MaxLinear..MaxLinear

ShiftVarCategories == [periodic |-> <<3>>, extended |-> <<1, 2>>]

Potentials ==
    [K11 : 0..MaxStiffness, K12 : 0..MaxStiffness, K22 : 0..MaxStiffness,
     b1 : -MaxLinear..MaxLinear, b2 : -MaxLinear..MaxLinear]

\* the terms outside the potential: the charging and junction terms of the
\* periodic variable 3, always there, and none, one or all of a plain
\* number, a term of a branch parameter alone, a term of the external flux
\* alone and the square of the offset charge
OperatorTerms == {{SymN(3)}, {SymN(3), SymNg(3)}, {SymEJ, SymCos(3)}}
OperatorFreeTerms == {{}, {SymEJ}, {SymFlux(1)}, {SymNg(3)}}
FurtherTerms ==
    {OperatorTerms \cup c :
        c \in {{}, OperatorFreeTerms, OperatorFreeTerms \ {{SymNg(3)}}}
                 \cup {{t} : t \in OperatorFreeTerms}}

Stiffness(P, v, w) ==
    IF v # w THEN P.K12 ELSE IF v = 1 THEN P.K11 ELSE P.K22

Linear(P, v) == IF v = 1 THEN P.b1 ELSE P.b2

\* H.coeff("θ" + str(var_index)) != 0: the terms with th_v to the first
\* power, the cross term th1*th2 among them
HasLinearCoeff(P, var_index) == Linear(P, var_index) # 0 \/ P.K12 # 0

\* the keys of flux_shift_vars, in the order of var_categories["extended"]
flux_shift_vars(P, var_categories) ==
    SelectSeq(var_categories.extended, LAMBDA v : HasLinearCoeff(P, v))

\* the coefficient of th_v after th_w -> th_w + Δth_w for the shifted w,
\* at th = 0: sum over w of a[w]*Δth_w, plus c
flux_shift_equations(P, shifted) ==
    [k \in DOMAIN shifted |->
        [a |-> [j \in DOMAIN shifted |->
                   IF j = k THEN 2 * Stiffness(P, shifted[k], shifted[k])
                   ELSE Stiffness(P, shifted[k], shifted[j])],
         c |-> Linear(P, shifted[k])]]

\* a component of a solution: num/den plus a multiple of the unknowns free
Component(num, den, free) == [num |-> num, den |-> den, free |-> free]

\* sympy.linsolve for at most two unknowns: no tuple when there is no
\* equation or no solution, the solution when it is unique, and otherwise
\* the solutions written in the unknowns left free
linsolve(eqs, unknowns) ==
    IF Len(eqs) = 0 THEN <<>>
    ELSE IF Len(eqs) = 1
    THEN LET a == eqs[1].a[1]
             c == eqs[1].c
         IN IF a # 0 THEN << <<Component(-c, a, {})>> >>
            ELSE IF c # 0 THEN <<>>
            ELSE << <<Component(0, 1, {unknowns[1]})>> >>
    ELSE LET a11 == eqs[1].a[1]
             a12 == eqs[1].a[2]
             a21 == eqs[2].a[1]
             a22 == eqs[2].a[2]
             c1 == eqs[1].c
             c2 == eqs[2].c
             det == a11 * a22 - a12 * a21
             consistent == /\ a11 * c2 = a21 * c1
                           /\ a12 * c2 = a22 * c1
                           /\ (a11 = 0 /\ a12 = 0) => c1 = 0
                           /\ (a21 = 0 /\ a22 = 0) => c2 = 0
         IN IF det # 0
            THEN << <<Component(a12 * c2 - a22 * c1, det, {}),
                      Component(a21 * c1 - a11 * c2, det, {})>> >>
            ELSE IF ~consistent THEN <<>>
            ELSE IF a11 # 0
            THEN << <<Component(-c1, a11, IF a12 # 0 THEN {unknowns[2]} ELSE {}),
                      Component(0, 1, {unknowns[2]})>> >>
            ELSE IF a21 # 0
            THEN << <<Component(-c2, a21, IF a22 # 0 THEN {unknowns[2]} ELSE {}),
                      Component(0, 1, {unknowns[2]})>> >>
            ELSE IF a12 # 0
            THEN << <<Component(0, 1, {unknowns[1]}), Component(-c1, a12, {})>> >>
            ELSE IF a22 # 0
            THEN << <<Component(0, 1, {unknowns[1]}), Component(-c2, a22, {})>> >>
            ELSE << <<Component(0, 1, {unknowns[1]}),
                      Component(0, 1, {unknowns[2]})>> >>

\* taking the first solution of an empty solution set: an IndexError
FirstUnguarded(solutions) ==
    IF Len(solutions) # 0 THEN [raised |-> FALSE, v |-> solutions[1]]
    ELSE [raised |-> TRUE, v |-> <<>>]

\* if len(flux_shifts) != 0: flux_shifts = list(list(flux_shifts)[0])
\* else: flux_shifts = []
FirstSolution(solutions) ==
    IF Len(solutions) # 0 THEN [raised |-> FALSE, v |-> solutions[1]]
    ELSE [raised |-> FALSE, v |-> <<>>]

\* dict(zip(list(flux_shift_vars.keys()), list(flux_shifts)))
ZipDict(keys, values) ==
    [v \in {keys[k] : k \in DOMAIN keys \cap DOMAIN values} |->
        values[CHOOSE k \in DOMAIN keys : keys[k] = v]]

\* the Δth symbols of H after the first substitution
SymbolsAfterSolution(shifted, flux_shifts_dict) ==
    (Range(shifted) \ DOMAIN flux_shifts_dict)
    \cup UNION {flux_shifts_dict[v].free : v \in DOMAIN flux_shifts_dict}

\* H = H.subs([(var, 0) for var in flux_shift_vars.values()])
ZeroShiftSymbols(left, shifted) == left \ Range(shifted)

\* the shift of H once both substitutions are made
ShiftOf(flux_shifts_dict, v) ==
    IF v \in DOMAIN flux_shifts_dict
    THEN <<flux_shifts_dict[v].num, flux_shifts_dict[v].den>>
    ELSE <<0, 1>>

\* the coefficient of th_v in H once both substitutions are made (w is
\* the other extended variable)
ShiftedLinear(P, shift, v) ==
    LET w == 3 - v
    IN <<Linear(P, v) * shift[v][2] * shift[w][2]
            + 2 * Stiffness(P, v, v) * shift[v][1] * shift[w][2]
            + Stiffness(P, v, w) * shift[w][1] * shift[v][2],
         shift[v][2] * shift[w][2]>>

\* the letters of str(symbol)
Spelling(s) ==
    CASE KindOf(s) = "number" -> <<"n">>
      [] KindOf(s) = "cos" -> <<"theta", "c">>
      [] KindOf(s) = "sin" -> <<"theta", "s">>
      [] KindOf(s) = "position" -> <<"theta">>
      [] KindOf(s) = "momentum" -> <<"Q">>
      [] KindOf(s) = "momentum_squared" -> <<"Q", "s">>
      [] KindOf(s) = "flux" -> <<"Phi">>
      [] KindOf(s) = "ng" -> <<"n", "g", "_">>
      [] KindOf(s) = "param" -> <<"E", "J">>
      [] KindOf(s) = "identity" -> <<"I">>

\* piece in str(term)
InStr(piece, term) == \E s \in term : IsSubstring(piece, Spelling(s))

\* H = H - H.as_coefficients_dict()[1]
DropNumber(terms) == terms \ {{}}

\* the terms with none of "Q", "θ", "n", "a", "Nh" in their str
constants(terms) ==
    {t \in terms :
        \A piece \in {<<"Q">>, <<"theta">>, <<"n">>, <<"a">>, <<"N", "h">>} :
            ~InStr(piece, t)}

\* H.subs(ext_flux, ext_flux * I * 2 * pi), H.subs(offset_charge,
\* offset_charge * I)
AttachIdentity(terms) ==
    {IF \E s \in t : KindOf(s) \in {"flux", "ng"} THEN t \cup {SymI} ELSE t
        : t \in terms}

generate_hamiltonian_sym_for_numerics(P, terms, var_categories) ==
    LET shifted == flux_shift_vars(P, var_categories)
        solutions == linsolve(flux_shift_equations(P, shifted), shifted)
        first == FirstSolution(solutions)
        flux_shifts_dict == ZipDict(shifted, first.v)
        left == ZeroShiftSymbols(SymbolsAfterSolution(shifted, flux_shifts_dict),
                                 shifted)
        shift == [v \in Range(var_categories.extended) |->
                     ShiftOf(flux_shifts_dict, v)]
        numbered == DropNumber(terms)
    IN [raised |-> first.raised,
        flux_shift_vars |-> shifted,
        solutions |-> solutions,
        flux_shifts |-> shift,
        shift_symbols |-> left,
        linear |-> [v \in Range(var_categories.extended) |->
                       ShiftedLinear(P, shift, v)],
        terms |-> AttachIdentity(numbered \ constants(numbered))]

GenerateHamiltonianSymForNumerics ==
    /\ call = NoCall
    /\ \E P \in Potentials, terms \in FurtherTerms :
          LET r == generate_hamiltonian_sym_for_numerics(P, terms, ShiftVarCategories)
          IN Call("generate_hamiltonian_sym_for_numerics",
                  [P |-> P, terms |-> terms, var_categories |-> ShiftVarCategories],
                  r.solutions, r)

PureNext ==
    \/ EvalsCalc
    \/ EsysCalc
    \/ TruncationTemplate
    \/ SetOperators
    \/ KronOperator
    \/ GetEvalHamiltonianString
    \/ SinCosPhi
    \/ ConstructRoot
    \/ ConstructSubsystem
    \/ InheritCutoffs
    \/ GenerateHamiltonianSymForNumerics

PureSpec == PureInit /\ [][PureNext]_vars

(***************************************************************************)
(* SpectrumLookup (spec_lookup.py).  The HilbertSpace it is built for is   *)
(* known by its subsystem_dims; the dressed spectrum by, for each bare     *)
(* basis index, the row of largest overlap and that overlap in hundredths, *)
(* and by its table of energies.  One parameter value (a HilbertSpace).    *)
(***************************************************************************)
MaxSubsysCount == 2  \* number of subsystems of the HilbertSpace
MaxSubsysDim == 2    \* dimension of a subsystem
MaxShift == 1        \* dressed state of bare state b is b + shift, shift in 0..MaxShift

SubsystemDimLists == UNION {[1..n -> 1..MaxSubsysDim] : n \in 1..MaxSubsysCount}

RECURSIVE itertools_product(_)
RECURSIVE FirstVariesFastest(_)
\* a product that lets the first range vary fastest
FirstVariesFastest(dim_list) ==
    IF dim_list = <<>> THEN << <<>> >>
    ELSE LET rest == FirstVariesFastest(Tail(dim_list))
         IN [i \in 1..(Head(dim_list) * Len(rest)) |->
               << (i - 1) % Head(dim_list) >> \o rest[((i - 1) \div Head(dim_list)) + 1]]

\* itertools.product(range(d_1), ..., range(d_N)) as a list: nested loops,
\* the first range outermost
itertools_product(dim_list) ==
    IF dim_list = <<>> THEN << <<>> >>
    ELSE LET rest == itertools_product(Tail(dim_list))
         IN [i \in 1..(Head(dim_list) * Len(rest)) |->
               << (i - 1) \div Len(rest) >> \o rest[((i - 1) % Len(rest)) + 1]]

\* _generate_bare_labels
generate_bare_labels(dim_list) == itertools_product(dim_list)

\* np.abs(column).argmax(): the first position of the largest entry,
\* counted from 0
np_argmax(column) ==
    (CHOOSE i \in DOMAIN column :
        \A j \in DOMAIN column :
            column[j] <= column[i] /\ (column[j] = column[i] => i <= j)) - 1

\* _generate_single_mapping: for each bare basis index the dressed index of
\* the largest overlap, and no assignment when that overlap is below 0.5
\* (overlaps are in hundredths)
generate_single_mapping(overlap_matrix, dimension) ==
    [b \in 1..dimension |->
        LET column == [d \in DOMAIN overlap_matrix |-> overlap_matrix[d][b]]
            max_position == np_argmax(column)
            max_overlap == column[max_position + 1]
        IN IF max_overlap < 50 THEN None ELSE Some(max_position)]

\* the overlap matrices of the dressed spectra followed, a row for each
\* dressed state: bare state b overlaps most with dressed state
\* (b + shift) mod dressed_count, weakly for b in low, and as much with the
\* dressed state after it when the two are hybridized
Overlaps(dimension, dressed_count, shift, low, hybridized) ==
    [d \in 1..dressed_count |->
        [b \in 1..dimension |->
            LET most == ((b - 1) + shift) % dressed_count
            IN IF \/ d - 1 = most
                  \/ hybridized /\ d - 1 = (most + 1) % dressed_count
               THEN IF b \in low THEN 40 ELSE 60
               ELSE 10]]

\* energy_table[0]: one energy for each dressed state, ascending
EnergyTable(dressed_count) == [d \in 1..dressed_count |-> 10 * d]

\* SpectrumLookup.__init__
NewSpectrumLookup(dim_list, overlap, energy_table) ==
    [subsystem_dims |-> dim_list,
     canonical_bare_labels |-> generate_bare_labels(dim_list),
     state_table |-> overlap,
     dressed_indices |-> generate_single_mapping(overlap, SeqProd(dim_list)),
     energy_table |-> energy_table,
     out_of_sync |-> FALSE]

\* the result of a decorated method: the warnings emitted and the value
Returned(warnings, out) == [warnings |-> warnings, out |-> out]

\* a wrapper that warns and does not call the method when out of sync
WarnOnly(lk, res) ==
    IF lk.out_of_sync THEN Returned(res.warnings + 1, None) ELSE res

\* check_sync_status: warn when out of sync, then return func(...)
check_sync_status(lk, res) ==
    IF lk.out_of_sync THEN Returned(res.warnings + 1, res.out) ELSE res

\* the body of dressed_index: an entry of dressed_indices (None when no
\* assignment was made), or None for a ValueError
DressedIndexBody(lk, bare_labels) ==
    IF ListIndex(lk.canonical_bare_labels, bare_labels) = 0 THEN None
    ELSE lk.dressed_indices[ListIndex(lk.canonical_bare_labels, bare_labels)]

dressed_index(lk, bare_labels) ==
    check_sync_status(lk, Returned(0, DressedIndexBody(lk, bare_labels)))

\* a bare_index that takes the dressed index for the lookup position
BareIndexAtPosition(lk, d) ==
    check_sync_status(lk,
        Returned(0, IF d + 1 \in DOMAIN lk.canonical_bare_labels
                    THEN Some(lk.canonical_bare_labels[d + 1]) ELSE None))

\* bare_index: the label at the first position mapped to dressed index d
bare_index(lk, d) ==
    check_sync_status(lk,
        Returned(0, IF ListIndex(lk.dressed_indices, Some(d)) = 0 THEN None
                    ELSE Some(lk.canonical_bare_labels[
                                 ListIndex(lk.dressed_indices, Some(d))])))

\* the body of energy_bare_index, r the result of self.dressed_index(...)
EnergyOfDressed(lk, r) ==
    Returned(r.warnings,
             IF ~r.out.some THEN None ELSE Some(lk.energy_table[r.out.v + 1]))

energy_bare_index(lk, bare_tuple) ==
    check_sync_status(lk, EnergyOfDressed(lk, dressed_index(lk, bare_tuple)))

\* the HilbertSpace objects and dressed spectra a lookup is generated for
LookupInit ==
    /\ root = NoCircuit
    /\ last = NoCircuit
    /\ nops = 0
    /\ call = NoCall
    /\ \E dim_list \in SubsystemDimLists, shift \in 0..MaxShift :
         \E dressed_count \in {SeqProd(dim_list), SeqProd(dim_list) - 1} \ {0} :
           \E low \in {{}, {1}, {SeqProd(dim_list)}}, hybridized \in BOOLEAN :
             lookup = NewSpectrumLookup(
                          dim_list,
                          Overlaps(SeqProd(dim_list), dressed_count, shift, low, hybridized),
                          EnergyTable(dressed_count))

\* the HilbertSpace changes after the lookup was generated
MarkOutOfSync ==
    /\ call = NoCall
    /\ ~lookup.out_of_sync
    /\ lookup' = [lookup EXCEPT !.out_of_sync = TRUE]
    /\ UNCHANGED <<root, last, nops, call>>

\* a call of a lookup method with its arguments and its result
LookupCall(fn, in, res) ==
    /\ call = NoCall
    /\ call' = [fn |-> fn, in |-> in, out_of_sync |-> lookup.out_of_sync,
                warnings |-> res.warnings, out |-> res.out]
    /\ UNCHANGED <<root, last, nops, lookup>>

\* the labels asked for: the canonical ones, one with an entry out of
\* range, one too long and the empty one
QueryLabels(lk) ==
    Range(lk.canonical_bare_labels)
    \cup {[lk.canonical_bare_labels[1] EXCEPT ![1] = lk.subsystem_dims[1]],
          Append(lk.canonical_bare_labels[1], 0), <<>>}

\* the dressed indices asked for: those of the table and the next one
QueryIndices(lk) == 0..Len(lk.energy_table)

DressedIndex ==
    \E bare_labels \in QueryLabels(lookup) :
        LookupCall("dressed_index", bare_labels, dressed_index(lookup, bare_labels))

BareIndex ==
    \E d \in QueryIndices(lookup) :
        LookupCall("bare_index", d, bare_index(lookup, d))

EnergyBareIndex ==
    \E bare_tuple \in QueryLabels(lookup) :
        LookupCall("energy_bare_index", bare_tuple, energy_bare_index(lookup, bare_tuple))

LookupNext ==
    \/ MarkOutOfSync
    \/ DressedIndex
    \/ BareIndex
    \/ EnergyBareIndex

LookupSpec == LookupInit /\ [][LookupNext]_vars

(***************************************************************************)
(* Properties.  Shared vocabulary first.                                   *)
(***************************************************************************)
GeneratingOps == {"__init__", "initiate_circuit", "set_system_hierarchy", "set_param"}
StructuralOps == {"__init__", "initiate_circuit", "set_system_hierarchy"}
SetterOps == {"set_param", "set_flux_or_charge", "set_cutoff"}

\* the node the last call ran on, and the paths of its subtree
Target == NodeAt(root, last.path)
SubtreePaths == {q \in Paths(root) : IsPrefix(last.path, q)}
ProperAncestorPaths == {q \in Paths(root) : IsPrefix(q, last.path) /\ q # last.path}

\* the hierarchical nodes whose generate_subsystems ran, to its end, within
\* the last call
Regenerated ==
    IF last.ok /\ last.op \in GeneratingOps
    THEN {n \in {NodeAt(root, q) : q \in SubtreePaths} : HasChildren(n)}
    ELSE {}

GroupIndices(n, k) == Range(flatten_list_recursive(n.system_hierarchy.v[k].sub))

VariableSet(n) == Range(n.var_categories.periodic \o n.var_categories.extended)

\* the groups are pairwise disjoint and jointly cover the node's variables
ValidPartition(n) ==
    /\ \A j, k \in DOMAIN n.system_hierarchy.v :
         j # k => GroupIndices(n, j) \cap GroupIndices(n, k) = {}
    /\ UNION {GroupIndices(n, k) : k \in DOMAIN n.system_hierarchy.v} = VariableSet(n)

SelfGroups(n, m) ==
    {k \in DOMAIN n.subsystem_hamiltonians : m \in DOMAIN n.subsystem_hamiltonians[k]}

InteractionGroups(n, m) ==
    {k \in DOMAIN n.subsystem_interactions : m \in DOMAIN n.subsystem_interactions[k]}

\* C1: after generate_subsystems on a node whose hierarchy is a valid
\* partition, the sum of all self-Hamiltonians and all interaction
\* Hamiltonians is the node's canonical Hamiltonian, monomial for monomial
\* with the original coefficients.
C1_ResumReproducesHamiltonian ==
    \A n \in Regenerated :
        ValidPartition(n) =>
            HAdd(HSum(n.subsystem_hamiltonians), HSum(n.subsystem_interactions)) = n.H

\* the assignment of one monomial: one self-Hamiltonian, of a group that
\* contains its variables, and no interaction; or no self-Hamiltonian and
\* the interaction of one or more groups, each overlapped but not containing
AssignedOnce(n, m) ==
    LET tv == term_var_categories(m, n.param_vars)
    IN \/ /\ Cardinality(SelfGroups(n, m)) = 1
          /\ InteractionGroups(n, m) = {}
          /\ \A k \in SelfGroups(n, m) : tv \subseteq GroupIndices(n, k)
       \/ /\ SelfGroups(n, m) = {}
          /\ InteractionGroups(n, m) # {}
          /\ \A k \in InteractionGroups(n, m) :
                /\ tv \cap GroupIndices(n, k) # {}
                /\ ~(tv \subseteq GroupIndices(n, k))

\* C2: generate_subsystems assigns every monomial of the canonical
\* Hamiltonian to exactly one group's self-Hamiltonian (its variables lie in
\* the group) or to the interaction Hamiltonians of one or more groups (it
\* overlaps them without lying in them); none is unassigned, none is in two
\* self-Hamiltonians or in a self- and an interaction Hamiltonian.
C2_EveryMonomialAssigned ==
    \A n \in Regenerated : \A m \in DOMAIN n.H : AssignedOnce(n, m)

\* a regenerated node with a monomial in the interactions of two groups and
\* a monomial without variables (contained in every group) in one
\* self-Hamiltonian
C2_Witness ==
    \E n \in Regenerated :
        /\ \E m \in DOMAIN n.H : Cardinality(InteractionGroups(n, m)) >= 2
        /\ \E m \in DOMAIN n.H :
              /\ term_var_categories(m, n.param_vars) = {}
              /\ Cardinality(SelfGroups(n, m)) = 1

\* C3: at every level the children's var_categories_list are pairwise
\* disjoint, their union is the parent's variable set, each equals the
\* flattened group the child was created for, and each is sorted ascending.
C3_ChildVariablesPartitionParent ==
    \A n \in Regenerated :
        /\ \A k \in DOMAIN n.subsystems :
              n.subsystems[k].var_categories_list = SortedSeqOf(GroupIndices(n, k))
        /\ \A j, k \in DOMAIN n.subsystems :
              j # k => Range(n.subsystems[j].var_categories_list)
                         \cap Range(n.subsystems[k].var_categories_list) = {}
        /\ UNION {Range(n.subsystems[k].var_categories_list) : k \in DOMAIN n.subsystems}
              = VariableSet(n)

RECURSIVE PeriodicProduct(_, _)
\* the product of 2*cutoff+1 over a list of periodic variables
PeriodicProduct(n, vs) ==
    IF vs = <<>> THEN 1
    ELSE (2 * n.cutoffs[CutName("cutoff_n", Head(vs))] + 1) * PeriodicProduct(n, Tail(vs))

RECURSIVE ExtendedProduct(_, _)
\* the product of cutoff over a list of extended variables
ExtendedProduct(n, vs) ==
    IF vs = <<>> THEN 1
    ELSE n.cutoffs[CutName("cutoff_ext", Head(vs))] * ExtendedProduct(n, Tail(vs))

\* C4: for a node without hierarchical diagonalization, hilbertdim() is the
\* product of 2*cutoff+1 over its periodic variables times the product of
\* cutoff over its extended variables, for every assignment of cutoffs and
\* after any sequence of cutoff mutations.
C4_FlatHilbertDim ==
    \A p \in Paths(root) :
        ~NodeAt(root, p).hierarchical_diagonalization =>
            hilbertdim(NodeAt(root, p)) =
                PeriodicProduct(NodeAt(root, p), NodeAt(root, p).var_categories.periodic)
                * ExtendedProduct(NodeAt(root, p), NodeAt(root, p).var_categories.extended)

\* a cutoff of a periodic variable was just set, away from its default, on a
\* node without hierarchical diagonalization that has variables of both kinds
C4_Witness ==
    /\ last.op = "set_cutoff" /\ last.ok
    /\ ~Target.hierarchical_diagonalization
    /\ CutInfo[last.sym].type = "cutoff_n"
    /\ Target.cutoffs[last.sym] = last.value
    /\ last.value # DefaultCutoffN
    /\ Target.var_categories.extended # <<>>

\* the truncated dimensions of the children a node holds
ChildDims(n) == [k \in DOMAIN n.subsystems |-> n.subsystems[k].truncated_dim]

\* the truncated dimension the node was given for each top-level group
GroupDims(n) ==
    [k \in DOMAIN n.system_hierarchy.v |-> n.subsystem_trunc_dims.v[k].d]

\* C5: for a node with hierarchical diagonalization, hilbertdim() is the
\* product of the truncated dimensions of its top-level groups and equals
\* the product of the truncated_dim attributes of the children it holds,
\* after construction, after set_system_hierarchy and after any parameter,
\* cutoff, flux or offset-charge mutation (every call having returned).
C5_HierarchicalHilbertDim ==
    last.clean =>
        \A p \in Paths(root) :
            NodeAt(root, p).hierarchical_diagonalization =>
                /\ NodeAt(root, p).has_subsystems
                /\ Len(NodeAt(root, p).subsystems) = Len(NodeAt(root, p).system_hierarchy.v)
                /\ hilbertdim(NodeAt(root, p)) = SeqProd(GroupDims(NodeAt(root, p)))
                /\ hilbertdim(NodeAt(root, p)) = SeqProd(ChildDims(NodeAt(root, p)))

\* a setter returned on a tree, built by calls that all returned, in which
\* a child of the root is hierarchical itself
C5_Witness ==
    /\ last.clean /\ last.op \in SetterOps
    /\ root.hierarchical_diagonalization
    /\ \E p \in Paths(root) : Len(p) = 1 /\ NodeAt(root, p).hierarchical_diagonalization
    /\ hilbertdim(root) = SeqProd(ChildDims(root))

RECURSIVE CoversEveryGroup(_, _)
\* subsystem_trunc_dims holds a truncated dimension for every group of the
\* hierarchy, nested groups included
CoversEveryGroup(hier, td) ==
    /\ td.some
    /\ Len(td.v) >= Len(hier)
    /\ \A k \in DOMAIN hier :
          ~IsFlatList(hier[k].sub) =>
              /\ td.v[k].isList
              /\ CoversEveryGroup(hier[k].sub, td.v[k].sub)

\* C6: whenever a hierarchy is requested (construction, initiate_circuit,
\* set_system_hierarchy) without a truncated dimension for every group, an
\* error is raised, and it is raised before any child Subsystem is built.
C6_ErrorBeforeAnyChild ==
    (/\ last.op \in StructuralOps
     /\ last.hier.some
     /\ IsHierarchical(last.hier.v)
     /\ ~CoversEveryGroup(last.hier.v, last.td))
        => (~last.ok /\ last.built = 0)

\* the attributes that hold a node's tree
TreeFields(n) ==
    [system_hierarchy |-> n.system_hierarchy,
     subsystem_trunc_dims |-> n.subsystem_trunc_dims,
     hierarchical_diagonalization |-> n.hierarchical_diagonalization,
     subsystems |-> IF n.has_subsystems THEN Some(n.subsystems) ELSE None,
     subsystem_hamiltonians |-> n.subsystem_hamiltonians,
     subsystem_interactions |-> n.subsystem_interactions]

\* C7: when initiate_circuit, set_system_hierarchy or generate_subsystems
\* fails, no partial tree is retained: system_hierarchy,
\* subsystem_trunc_dims, hierarchical_diagonalization, subsystems,
\* subsystem_hamiltonians and subsystem_interactions of the node are what
\* they were before the call.
C7_NoPartialTree ==
    [][(last'.op \in {"initiate_circuit", "set_system_hierarchy", "set_param"}
        /\ ~last'.ok)
          => TreeFields(NodeAt(root', last'.path)) = TreeFields(NodeAt(root, last'.path))]_vars

\* a node declares a symbol when it was given the property of that name
Declares(n, s) == s \in DOMAIN n.vals \/ s \in DOMAIN n.cutoffs

ValueOf(n, s) == IF s \in DOMAIN n.vals THEN n.vals[s] ELSE n.cutoffs[s]

\* C8: after a parameter, cutoff, external-flux or offset-charge value is
\* set on a node, once the setter returns every descendant, at any depth,
\* that declares the symbol holds the new value and none holds the old one.
C8_DownwardPropagation ==
    (last.op \in SetterOps /\ last.ok) =>
        \A q \in SubtreePaths :
            Declares(NodeAt(root, q), last.sym) =>
                ValueOf(NodeAt(root, q), last.sym) = last.value

\* a cutoff was set on the root, away from its default, and a node two
\* levels down declares it
C8_Witness ==
    /\ last.op = "set_cutoff" /\ last.ok /\ last.path = <<>>
    /\ last.value \notin {DefaultCutoffN, DefaultCutoffExt}
    /\ \E q \in Paths(root) : Len(q) = 2 /\ Declares(NodeAt(root, q), last.sym)

\* the composite a node holds is the one build_hilbertspace would assemble
\* from the values, cutoffs and operators the tree holds now
CompositeIsCurrent(n) ==
    /\ CanBuildHilbertSpace(n)
    /\ n.hilbert_space.couplings = Couplings(n)

\* C9: after a parameter, cutoff, external-flux or offset-charge value is
\* set on a non-root node, every ancestor has rebuilt its hilbert_space: no
\* ancestor's composite holds operators or coupling coefficients computed
\* before the mutation.
C9_AncestorsRebuilt ==
    (last.op \in SetterOps /\ last.ok /\ last.path # <<>>) =>
        \A q \in ProperAncestorPaths :
            NodeAt(root, q).has_hs => CompositeIsCurrent(NodeAt(root, q))

\* C10: after a parameter, cutoff, external-flux or offset-charge mutation
\* on a hierarchical node, once the setter returns every coupling of the
\* node's hilbert_space has a coefficient and operators computed from the
\* node's current values; no stale composite is observable.
C10_CompositeConsistent ==
    (/\ last.op \in SetterOps /\ last.ok
     /\ Target.hierarchical_diagonalization
     /\ Target.has_hs)
        => CompositeIsCurrent(Target)

\* C11: a parameter or cutoff setter is atomic: when the regeneration it
\* triggers (generate_subsystems, set_operators, build_hilbertspace) fails,
\* the node is what it was before the call: the stored value, the
\* subsystems and the hilbert_space.
C11_SetterAtomic ==
    [][(last'.op \in {"set_param", "set_cutoff"} /\ ~last'.ok)
          => NodeAt(root', last'.path) = NodeAt(root, last'.path)]_vars

\* C12: after a Circuit is constructed or re-initiated with a hierarchy, or
\* after set_system_hierarchy, once the call returns every node with
\* hierarchical_diagonalization holds its subsystems and a hilbert_space
\* built from them, so hamiltonian() can be evaluated with no further call.
C12_TreeAndCompositeBuilt ==
    (last.op \in StructuralOps /\ last.ok) =>
        \A q \in Paths(root) :
            NodeAt(root, q).hierarchical_diagonalization =>
                /\ NodeAt(root, q).has_subsystems
                /\ NodeAt(root, q).has_hs
                /\ CompositeIsCurrent(NodeAt(root, q))

\* the k smallest eigenvalues of a spectrum, ascending
LowestEvals(spectrum, k) == SubSeq(np_sort(spectrum), 1, k)

\* C13: _evals_calc returns the requested eigenvalues in non-decreasing
\* order, and _esys_calc returns them in non-decreasing order with the
\* eigenvector columns permuted alike: column i is the eigenvector of
\* eigenvalue i; on the sparse and on the dense path.
C13_EigensolverAscending ==
    /\ call.fn = "_evals_calc" =>
          /\ IsAscending(call.out)
          /\ call.out = LowestEvals(call.in.spectrum, call.in.evals_count)
    /\ call.fn = "_esys_calc" =>
          /\ IsAscending(call.out.evals)
          /\ call.out.evals = LowestEvals(call.in.spectrum, call.in.evals_count)
          /\ \A i \in DOMAIN call.out.evecs :
                call.in.spectrum[call.out.evecs[i]] = call.out.evals[i]
          /\ \A i, j \in DOMAIN call.out.evecs :
                i # j => call.out.evecs[i] # call.out.evecs[j]

\* the sparse routine returned three eigenvalues out of order
C13_Witness ==
    /\ call.fn \in {"_evals_calc", "_esys_calc"}
    /\ call.in.type = "sparse"
    /\ call.in.evals_count = 3
    /\ ~IsAscending(call.raw.evals)

RECURSIVE Template(_, _, _)
\* the template of a hierarchy: the individual dimension for a flat group,
\* [combined dimension, template of the group] for a nested one, with the
\* same two dimensions at every level
Template(hier, individual, combined) ==
    [k \in DOMAIN hier |->
        IF IsFlatList(hier[k].sub) THEN TdInt(individual)
        ELSE TdList(combined, Template(hier[k].sub, individual, combined))]

\* C14: truncation_template returns one entry per top-level group, in
\* order: individual_trunc_dim for a flat group and [combined_trunc_dim,
\* template of the group] for a nested one, the nested template built with
\* the same individual_trunc_dim and combined_trunc_dim.
C14_TruncationTemplate ==
    call.fn = "truncation_template" =>
        call.out = Template(call.in.system_hierarchy, call.in.individual_trunc_dim,
                            call.in.combined_trunc_dim)

\* the symbols of the attribute vars of a node (_set_vars)
VarsSymbols(n) == OperatorSymbols(n.var_categories, n.ext_basis) \cup {SymI}

\* the names a client may pass to get_operator
RequestedNames == DOMAIN SymInfo \ {""}

\* C15: get_operator(name) with a name that is not one of the symbols in
\* vars of the node ends in an error and returns no value, on a flat node
\* and on a hierarchical node.
C15_UnknownOperatorRaises ==
    \A q \in Paths(root) :
        \A name \in RequestedNames \ VarsSymbols(NodeAt(root, q)) :
            ~CanGetOperator(NodeAt(root, q), name)

\* label a comes before label b in lexicographic order
LexLess(a, b) ==
    \E k \in DOMAIN a :
        /\ a[k] < b[k]
        /\ \A j \in 1..(k - 1) : a[j] = b[j]

\* C16: _generate_bare_labels returns every tuple (i_1, ..., i_N) with
\* 0 <= i_k < dim_k exactly once, in lexicographic order (the last
\* subsystem's index varying fastest); the list is as long as the product
\* of the subsystem dimensions.
C16_BareLabelsCanonical ==
    lookup # NoLookup =>
        LET labels == lookup.canonical_bare_labels
            dims == lookup.subsystem_dims
        IN /\ Len(labels) = SeqProd(dims)
           /\ \A i \in DOMAIN labels :
                 /\ Len(labels[i]) = Len(dims)
                 /\ \A k \in DOMAIN dims : labels[i][k] \in 0..(dims[k] - 1)
           /\ \A i, j \in DOMAIN labels : i < j => LexLess(labels[i], labels[j])

\* a lookup for two subsystems of dimension two: four labels
C16_Witness ==
    /\ lookup # NoLookup
    /\ lookup.subsystem_dims = <<2, 2>>
    /\ Len(lookup.canonical_bare_labels) = 4

\* the positions of the canonical list that hold a label, and the bare
\* positions mapped to a dressed index
PositionsOf(labels) ==
    {k \in DOMAIN lookup.canonical_bare_labels : lookup.canonical_bare_labels[k] = labels}

MappedTo(d) == {b \in DOMAIN lookup.dressed_indices : lookup.dressed_indices[b] = Some(d)}

\* C17: a failed lookup is reported as None: dressed_index returns None for
\* labels that are not canonical, bare_index returns None for a dressed
\* index no bare state is mapped to, energy_bare_index returns None whenever
\* dressed_index does; otherwise each returns the entry stored at the
\* looked-up position.  Every call returns.
C17_FailedLookupIsNone ==
    /\ call.fn = "dressed_index" =>
          IF PositionsOf(call.in) = {} THEN call.out = None
          ELSE \E k \in PositionsOf(call.in) : call.out = lookup.dressed_indices[k]
    /\ call.fn = "bare_index" =>
          IF MappedTo(call.in) = {} THEN call.out = None
          ELSE \E b \in MappedTo(call.in) :
                  /\ \A j \in MappedTo(call.in) : b <= j
                  /\ call.out = Some(lookup.canonical_bare_labels[b])
    /\ call.fn = "energy_bare_index" =>
          IF \A k \in PositionsOf(call.in) : ~lookup.dressed_indices[k].some
          THEN call.out = None
          ELSE \E k \in PositionsOf(call.in) :
                  call.out = Some(lookup.energy_table[lookup.dressed_indices[k].v + 1])

\* bare_index found a bare state for a dressed index, at another position
\* of the list than the dressed index itself
C17_Witness ==
    /\ call.fn = "bare_index"
    /\ call.out.some
    /\ call.in + 1 \in DOMAIN lookup.canonical_bare_labels
    /\ call.out.v # lookup.canonical_bare_labels[call.in + 1]

\* what a lookup method returns when the lookup is in sync
InSyncResult(c) ==
    LET lk == [lookup EXCEPT !.out_of_sync = FALSE]
    IN CASE c.fn = "dressed_index" -> dressed_index(lk, c.in).out
         [] c.fn = "bare_index" -> bare_index(lk, c.in).out
         [] c.fn = "energy_bare_index" -> energy_bare_index(lk, c.in).out

\* C18: a SpectrumLookup starts in sync; a method decorated with
\* check_sync_status, called while _out_of_sync is true, emits the warning
\* and returns what it returns when in sync; it emits no warning when in
\* sync; and a call changes no lookup state.
C18_OutOfSyncWarnsAndExecutes ==
    /\ ~lookup.out_of_sync
    /\ [](call # NoCall =>
            /\ call.out_of_sync = lookup.out_of_sync
            /\ call.out_of_sync => call.warnings >= 1
            /\ ~call.out_of_sync => call.warnings = 0
            /\ call.out = InSyncResult(call))
    /\ [][call' # call => lookup' = lookup]_vars

\* a lookup out of sync was asked for a dressed index and returned one
C18_Witness ==
    /\ call.fn = "dressed_index"
    /\ call.out_of_sync
    /\ call.warnings = 1
    /\ call.out.some

\* the symbols of one category of vars are bound to the operators of their
\* kind and variable index
BoundByKind(bound, items, var_indices) ==
    \A e \in Range(items) :
        \A k \in DOMAIN e.list : bound[e.list[k]] = Op(e.key, var_indices[k])

\* C19: set_operators binds every operator symbol of a leaf node to the
\* operator of the same variable index and the same kind (periodic sin, cos,
\* number; discretized position, momentum, momentum-squared, sin, cos;
\* harmonic annihilation, creation, number, position, momentum, sin, cos),
\* for every basis and any number of variables.
C19_OperatorsBoundByKind ==
    call.fn = "set_operators" =>
        /\ BoundByKind(call.out, VarsPeriodic(call.in.var_categories),
                       call.in.var_categories.periodic)
        /\ BoundByKind(call.out,
                       VarsExtended(call.in.var_categories, call.in.ext_basis),
                       call.in.var_categories.extended)

\* the dimension a variable of a leaf node has by its own cutoff
OwnDim(node, u) ==
    IF InList(node.var_categories.periodic, u)
    THEN 2 * node.cutoffs[CutName("cutoff_n", u)] + 1
    ELSE node.cutoffs[CutName("cutoff_ext", u)]

\* the product of the own dimensions of a set of variables
OwnDimProduct(node, U) ==
    SeqProd([k \in 1..Cardinality(U) |-> OwnDim(node, SortedSeqOf(U)[k])])

\* C20: _kron_operator embeds the operator of variable v as
\* I_left (x) op (x) I_right: I_left has the product of the cutoff-derived
\* dimensions of the node's variables with index smaller than v, I_right
\* that of the variables with larger index, each variable with its own
\* cutoff; there is no factor on a side without variables; and the result
\* has dimension hilbertdim().
C20_KronEmbedding ==
    call.fn = "_kron_operator" =>
        LET node == call.in.node
            all == Range(node.var_categories.periodic \o node.var_categories.extended)
            smaller == {u \in all : u < call.in.index}
            larger == {u \in all : u > call.in.index}
        IN /\ call.out.Identity_l =
                 IF smaller = {} THEN None ELSE Some(OwnDimProduct(node, smaller))
           /\ call.out.Identity_r =
                 IF larger = {} THEN None ELSE Some(OwnDimProduct(node, larger))
           /\ call.out.dim = hilbertdim(node)

\* the nodes whose build_hilbertspace ran, to its end, within the last call
\* (initiate_circuit regenerates the subsystems of the root and builds no
\* hilbert_space for it)
BuiltComposite ==
    {n \in Regenerated : n.has_hs /\ (n.is_child \/ last.op # "initiate_circuit")}

\* the groups of a node that hold a variable of a monomial
GroupsOf(n, m) ==
    {k \in DOMAIN n.system_hierarchy.v :
        term_var_categories(m, n.param_vars) \cap GroupIndices(n, k) # {}}

CouplingsOf(n, m) == {c \in n.hilbert_space.couplings : c.term = m}

\* C21: build_hilbertspace registers every monomial of the canonical
\* Hamiltonian that spans two or more groups as a coupling exactly once,
\* with the monomial's coefficient evaluated at the node's values and every
\* operator attached to the subsystem that owns its variable; a monomial
\* within one group is no coupling, and a group whose interaction term is
\* zero registers none.
C21_CouplingsRegisteredOnce ==
    \A n \in BuiltComposite :
        ValidPartition(n) =>
            /\ \A m \in DOMAIN n.H :
                  IF Cardinality(GroupsOf(n, m)) >= 2
                  THEN /\ Cardinality(CouplingsOf(n, m)) = 1
                       /\ \A c \in CouplingsOf(n, m) :
                             /\ c.g = CouplingCoefficient(n, n.H[m], m)
                             /\ \A o \in c.ops :
                                   get_trailing_number(o.op.sym)
                                      \in GroupIndices(n, o.sub)
                  ELSE CouplingsOf(n, m) = {}
            /\ \A k \in DOMAIN n.subsystem_interactions :
                  DOMAIN n.subsystem_interactions[k] = {} =>
                      \A c \in n.hilbert_space.couplings : c.grp # k

\* the matrices of a node are scipy sparse matrices: "*" is the matrix
\* product and "**" the matrix power; on dense arrays both act elementwise
SparseStorage(node) == node.type_of_matrices = "sparse"

\* the operators that are diagonal matrices in a dense node (charge number
\* and oscillator number): elementwise and matrix products of them agree
IsDiagonal(f) == f.kind = "number"

\* a written factor is the matrix power of its operator
PowerComposed(node, w) ==
    \/ w.pow = 1 /\ w.by = ""
    \/ w.by = "matrix_power"
    \/ w.by = "**" /\ (SparseStorage(node) \/ IsDiagonal(w))

\* the factors of a written term are joined by the matrix product
ProductComposed(node, written) ==
    \/ Len(written.factors) <= 1
    \/ written.join = "@"
    \/ written.join = "*" /\ (SparseStorage(node)
                              \/ \A k \in DOMAIN written.factors :
                                    IsDiagonal(written.factors[k]))

\* the written term is the composition of every factor of the monomial,
\* each raised to its power
ComposesEveryFactor(node, term, written) ==
    /\ Len(written.factors) = Len(term)
    /\ \A k \in DOMAIN written.factors :
          /\ k \in DOMAIN term
          /\ written.factors[k].sym = term[k].sym
          /\ written.factors[k].pow = term[k].pow
          /\ PowerComposed(node, written.factors[k])
    /\ ProductComposed(node, written)

\* C22: the string hamiltonian() evaluates holds one summand for each
\* monomial of the substituted Hamiltonian: the monomial's coefficient times
\* the matrix product of one factor for every operator symbol of the
\* monomial, each raised to its power by matrix composition; no symbol is
\* dropped or applied elementwise, in the discretized and in the harmonic
\* basis, monomials that mix powered and unpowered symbols included.
C22_EveryFactorComposed ==
    call.fn = "_get_eval_hamiltonian_string" =>
        /\ Len(call.out) = Len(call.in.H)
        /\ \A x \in DOMAIN call.out :
              /\ x \in DOMAIN call.in.H
              /\ call.out[x].coeff = call.in.H[x].coeff
              /\ ComposesEveryFactor(call.in.node, call.in.H[x].term, call.out[x].term)

\* the diagonal of the sines, respectively cosines, of the grid coordinates
SinesOf(xs) == [k \in DOMAIN xs |-> [fn |-> "sin", at |-> xs[k]]]
CosinesOf(xs) == [k \in DOMAIN xs |-> [fn |-> "cos", at |-> xs[k]]]

\* C23: in the discretized basis the sine operator of an extended variable
\* is the diagonal matrix of the sines of the grid coordinates, and the
\* cosine operator the diagonal matrix of the cosines of the same
\* coordinates.
C23_SinCosOfGrid ==
    /\ call.fn = "_cos_phi" => call.out = CosinesOf(call.raw)
    /\ call.fn = "_sin_phi" => call.out = SinesOf(call.raw)

\* the storage class type_of_matrices names
StorageOf(x) == IF x = "ndarray" THEN "dense" ELSE "sparse"

\* C24: type_of_matrices of a node is "dense" if and only if the node has
\* exactly one variable and ext_basis is "harmonic", and "sparse" in every
\* other case; every operator _kron_operator / _change_sparsity returns is
\* stored as type_of_matrices names.
C24_DenseIffOneHarmonicVariable ==
    call.fn \in {"Circuit.__init__", "Subsystem.__init__"} =>
        /\ call.out.type_of_matrices \in {"dense", "sparse"}
        /\ call.out.type_of_matrices = "dense" <=>
              /\ Len(call.out.var_categories.periodic)
                   + Len(call.out.var_categories.extended) = 1
              /\ call.out.ext_basis = "harmonic"
        /\ \A x \in MatrixFormats :
              StorageOf(call.out.kron[x]) = call.out.type_of_matrices

\* the parent's cutoff of a variable it holds
ParentCutoff(parent, i) ==
    IF InList(parent.var_categories.periodic, i)
    THEN parent.cutoffs[CutName("cutoff_n", i)]
    ELSE parent.cutoffs[CutName("cutoff_ext", i)]

\* C25: a child node's parameter, external-flux and offset-charge lists are
\* the parent's symbols that occur among the free symbols of the child's
\* self-Hamiltonian, in the parent's order; the child's ext_basis is the
\* parent's; and for every variable the child owns, the cutoff it holds
\* (the cutoff property and the entry of cutoffs_dict) is the parent's
\* cutoff of that variable when the child is built.
C25_ChildInheritsFromParent ==
    /\ call.fn = "Subsystem.__init__" =>
          LET parent == RootWith(call.in.H, VarCategories, call.in.ext_basis)
              Hsym == PartitionLoop(parent.H, call.in.system_hierarchy,
                                    parent.param_vars).sys[call.in.index]
              Of(l) == SelectSeq(l, LAMBDA s : s \in free_symbols(Hsym))
          IN /\ call.out.param_vars = Of(parent.param_vars)
             /\ call.out.external_fluxes = Of(parent.external_fluxes)
             /\ call.out.offset_charges = Of(parent.offset_charges)
             /\ call.out.ext_basis = parent.ext_basis
    /\ call.fn = "Subsystem.__init__ (cutoffs)" =>
          \A i \in Range(call.out.var_categories.periodic
                         \o call.out.var_categories.extended) :
              /\ \A t \in {"cutoff_n", "cutoff_ext"} :
                    CutName(t, i) \in DOMAIN call.out.cutoffs =>
                        call.out.cutoffs[CutName(t, i)] = ParentCutoff(call.in.parent, i)
              /\ i \in DOMAIN call.out.cutoffs_dict
              /\ call.out.cutoffs_dict[i] = ParentCutoff(call.in.parent, i)

\* the state of a node the claim speaks of: the stored parameter, flux,
\* offset-charge and cutoff values and the elementary operators
OwnState(n) == [vals |-> n.vals, cutoffs |-> n.cutoffs, ops |-> n.ops]

\* C26: setting a parameter, cutoff, external flux or offset charge on one
\* node changes stored values and operators only of that node and its
\* descendants: every node outside the subtree of the node that was set
\* (its siblings, their descendants and its ancestors) is still in the tree
\* and holds the values and the elementary operators it held before.
C26_SetterFrame ==
    [][last'.op \in SetterOps =>
          \A q \in Paths(root) :
              ~IsPrefix(last'.path, q) =>
                  /\ q \in Paths(root')
                  /\ OwnState(NodeAt(root', q)) = OwnState(NodeAt(root, q))]_vars

\* a value was set on a node below the root while a node outside its
\* subtree, not an ancestor, declares the same symbol and holds another
\* value
C26_Witness ==
    /\ last.op \in SetterOps /\ last.ok /\ last.path # <<>>
    /\ \E q \in Paths(root) :
          /\ ~IsPrefix(last.path, q) /\ ~IsPrefix(q, last.path)
          /\ Declares(NodeAt(root, q), last.sym)
          /\ ValueOf(NodeAt(root, q), last.sym) # last.value

OperatorKinds ==
    {"number", "cos", "sin", "position", "momentum", "momentum_squared"}

\* C27: the canonical Hamiltonian produced by
\* generate_hamiltonian_sym_for_numerics has its additive constant dropped:
\* every monomial of it holds an operator symbol, none is made only of
\* numbers, branch parameters, external-flux symbols, offset-charge symbols
\* and the identity marker.
C27_AdditiveConstantDropped ==
    call.fn = "generate_hamiltonian_sym_for_numerics" =>
        \A t \in call.out.terms : \E s \in t : KindOf(s) \in OperatorKinds

\* the determinant of the flux-shift system (1 for the system of no
\* equation)
SystemDet(P, shifted) ==
    LET eqs == flux_shift_equations(P, shifted)
    IN IF Len(eqs) = 0 THEN 1
       ELSE IF Len(eqs) = 1 THEN eqs[1].a[1]
       ELSE eqs[1].a[1] * eqs[2].a[2] - eqs[1].a[2] * eqs[2].a[1]

\* no failure, no shift symbol left, every shift zero, and the linear
\* terms what they were
ZeroShiftFallback ==
    /\ ~call.out.raised
    /\ call.out.shift_symbols = {}
    /\ \A v \in Range(call.in.var_categories.extended) :
          /\ call.out.flux_shifts[v][1] = 0
          /\ call.out.linear[v] = <<Linear(call.in.P, v), 1>>

\* C28 as stated: when the linear system for the flux-offset shifts of the
\* extended variables is singular or inconsistent,
\* generate_hamiltonian_sym_for_numerics does not fail, uses a zero shift
\* for every variable, leaves no shift symbol in the Hamiltonian and still
\* produces a Hamiltonian.
C28_SingularFallsBackToZero ==
    (/\ call.fn = "generate_hamiltonian_sym_for_numerics"
     /\ call.out.flux_shift_vars # <<>>
     /\ \/ SystemDet(call.in.P, call.out.flux_shift_vars) = 0
        \/ call.out.solutions = <<>>)
        => ZeroShiftFallback

\* C28: generate_hamiltonian_sym_for_numerics never fails and never leaves
\* a shift symbol in the Hamiltonian.  When linsolve returns no solution
\* for the flux-shift system, it uses a zero shift for every extended
\* variable and the linear terms stay.  When linsolve returns a solution,
\* unique or written in the shift symbols left free (a singular, consistent
\* system), the shift is that solution with the free symbols at zero, and
\* the linear term of every shifted variable is gone.
C28_NoSolutionFallsBackToZero ==
    call.fn = "generate_hamiltonian_sym_for_numerics" =>
        /\ ~call.out.raised
        /\ call.out.shift_symbols = {}
        /\ (call.out.flux_shift_vars # <<>> /\ call.out.solutions = <<>>)
              => ZeroShiftFallback
        /\ call.out.solutions # <<>> =>
              \A v \in Range(call.out.flux_shift_vars) : call.out.linear[v][1] = 0

\* two variables are shifted, one of them with a stiffness that would give
\* it a shift of its own, and the system of the two has no solution
C28_Witness ==
    /\ call.fn = "generate_hamiltonian_sym_for_numerics"
    /\ Len(call.out.flux_shift_vars) = 2
    /\ call.in.P.K11 # 0
    /\ call.out.solutions = <<>>
    /\ \A v \in Range(call.in.var_categories.extended) : call.out.flux_shifts[v][1] = 0

\* the overlaps of bare state b with the dressed states
OverlapsOf(b) == [d \in DOMAIN lookup.state_table |-> lookup.state_table[d][b]]

\* the dressed states of largest overlap with bare state b
Largest(b) ==
    {d \in DOMAIN lookup.state_table :
        \A e \in DOMAIN lookup.state_table : OverlapsOf(b)[e] <= OverlapsOf(b)[d]}

\* the list has one entry for each canonical bare state: the first dressed
\* index of largest overlap, None when that overlap is below 0.5
EntriesAreLargestOverlaps ==
    /\ Len(lookup.dressed_indices) = SeqProd(lookup.subsystem_dims)
    /\ Len(lookup.dressed_indices) = Len(lookup.canonical_bare_labels)
    /\ \A b \in DOMAIN lookup.dressed_indices :
          \E d \in Largest(b) :
              /\ \A e \in Largest(b) : d <= e
              /\ lookup.dressed_indices[b] =
                    IF OverlapsOf(b)[d] < 50 THEN None ELSE Some(d - 1)

\* C29: _generate_single_mapping returns one entry per canonical bare
\* state, the dressed index of largest overlap magnitude with it (the first
\* on ties), None when that overlap is below 0.5; the list is as long as the
\* Hilbert-space dimension, and no dressed index is assigned to two
\* different bare states.
C29_SingleMappingOneToOne ==
    /\ EntriesAreLargestOverlaps
    /\ \A b1, b2 \in DOMAIN lookup.dressed_indices :
          (b1 # b2 /\ lookup.dressed_indices[b1].some)
              => lookup.dressed_indices[b1] # lookup.dressed_indices[b2]

\* C30: the lookup round-trips: when dressed_index of a canonical bare label
\* b returns j, not None, bare_index of j returns b; and when bare_index of
\* a dressed index j returns b, not None, dressed_index of b returns j.
C30_RoundTrip ==
    /\ (call.fn = "dressed_index" /\ call.out.some)
          => bare_index(lookup, call.out.v).out = Some(call.in)
    /\ (call.fn = "bare_index" /\ call.out.some)
          => dressed_index(lookup, call.out.v).out = Some(call.in)

====
